---- MODULE Spec2Model ----
(***************************************************************************)
(* Security decision pipeline of electron-mcp-server: the risk classifier  *)
(* (src/security/validation.ts), the policy profiles and the audit logger  *)
(* (src/security/config.ts), the sandbox executor (src/security/sandbox.ts)*)
(* and the tool-call handler (src/handlers.ts).  The orchestrator          *)
(* (security/manager.ts) is not part of the sources at hand; its           *)
(* operations are modelled from the design document (section 4.5).         *)
(*                                                                         *)
(* Texts are sequences of one-character strings, so that the regular       *)
(* expressions of the code are matched character by character.  Indexes    *)
(* into a text are 0-based offsets as in JavaScript (lastIndex).           *)
(***************************************************************************)
EXTENDS Integers, Sequences, FiniteSets, TLC

----------------------------------------------------------------------------
(* Characters and character classes of JavaScript regular expressions.     *)

LowerLetters == <<"a","b","c","d","e","f","g","h","i","j","k","l","m",
                  "n","o","p","q","r","s","t","u","v","w","x","y","z">>
UpperLetters == <<"A","B","C","D","E","F","G","H","I","J","K","L","M",
                  "N","O","P","Q","R","S","T","U","V","W","X","Y","Z">>
Digits == {"0","1","2","3","4","5","6","7","8","9"}
OctalDigits == {"0","1","2","3","4","5","6","7"}
HexDigits == Digits \cup {"a","b","c","d","e","f","A","B","C","D","E","F"}
LowerSet == {LowerLetters[i] : i \in DOMAIN LowerLetters}
UpperSet == {UpperLetters[i] : i \in DOMAIN UpperLetters}

\* \w
WordChars == LowerSet \cup UpperSet \cup Digits \cup {"_"}
\* \s (the white space that occurs in the texts of the model)
SpaceChars == {" ", "\t", "\n"}
\* [a-zA-Z0-9\s], the complement of the "special characters"
AlnumSpace == LowerSet \cup UpperSet \cup Digits \cup SpaceChars

\* the backtick character, which a TLA+ string cannot hold
Backtick == "backtick"
\* ['"]
DoubleQuote == "\""
Quotes == {"'", DoubleQuote}

\* String.prototype.toLowerCase on one character (the 'i' flag's case folding)
LowerMap == [c \in UpperSet |-> LowerLetters[CHOOSE i \in DOMAIN UpperLetters : UpperLetters[i] = c]]
ToLower(c) == IF c \in UpperSet THEN LowerMap[c] ELSE c

SameChar(a, b, ci) == IF ci THEN ToLower(a) = ToLower(b) ELSE a = b

----------------------------------------------------------------------------
(* A backtracking matcher for the regular expressions the code uses.       *)
(* A regular expression is [alts, ci]: an ordered alternation of branches, *)
(* each a sequence of nodes, and the 'i' flag.  Nodes:                     *)
(*   Lit(s)            the literal text s                                  *)
(*   Rep(set,neg,min,many,lazy) a character class (negated when neg) that  *)
(*                     occurs min..1 times, or min or more when many       *)
(*   Alt(seq of texts) an ordered alternation of literal texts (a group)   *)
(*   Bol, Eol, Wb      ^, $ and \b                                         *)
(*   Nla(s)            the negative lookahead (?!s)                        *)

Lit(s) == [t |-> "lit", s |-> s]
Rep(set, neg, min, many, lazy) == [t |-> "rep", set |-> set, neg |-> neg, min |-> min, many |-> many, lazy |-> lazy]
Alt(alts) == [t |-> "alt", alts |-> alts]
Bol == [t |-> "bol"]
Eol == [t |-> "eol"]
Wb == [t |-> "wb"]
Nla(s) == [t |-> "nla", s |-> s]

One(set) == Rep(set, FALSE, 1, FALSE, FALSE)
NotOne(set) == Rep(set, TRUE, 1, FALSE, FALSE)
Star(set) == Rep(set, FALSE, 0, TRUE, FALSE)
Plus(set) == Rep(set, FALSE, 1, TRUE, FALSE)
NotStar(set) == Rep(set, TRUE, 0, TRUE, FALSE)
NotPlus(set) == Rep(set, TRUE, 1, TRUE, FALSE)
\* [\s\S]*?
AnyLazy == Rep({}, TRUE, 0, TRUE, TRUE)
\* .*
DotStar == Rep({"\n"}, TRUE, 0, TRUE, FALSE)

RegExp(alts, ci) == [alts |-> alts, ci |-> ci]
Re1(branch, ci) == RegExp(<<branch>>, ci)

\* the text s holds the literal lit at offset i
LitAt(lit, s, i, ci) ==
    /\ i + Len(lit) <= Len(s)
    /\ \A j \in 1..Len(lit) : SameChar(s[i + j], lit[j], ci)

InClass(n, c, ci) ==
    LET in == IF ci THEN \E d \in n.set : SameChar(c, d, TRUE) ELSE c \in n.set
    IN  IF n.neg THEN ~in ELSE in

\* number of consecutive characters of the class at offset i, at most one unless many
RECURSIVE RunLen(_, _, _, _, _)
RunLen(n, s, i, ci, acc) ==
    IF (n.many \/ acc < 1) /\ i + acc < Len(s) /\ InClass(n, s[i + acc + 1], ci)
    THEN RunLen(n, s, i, ci, acc + 1)
    ELSE acc

IsWordAt(s, i) == i >= 1 /\ i <= Len(s) /\ s[i] \in WordChars
\* \b at offset i: exactly one of the characters before and after is a word character
WordBoundary(s, i) == IsWordAt(s, i) # IsWordAt(s, i + 1)

\* the end offset r of a match, or what the next alternative gives when r is -1
OrElse(r, next) == IF r # -1 THEN r ELSE next

RECURSIVE MatchSeq(_, _, _, _, _)
RECURSIVE TryRep(_, _, _, _, _, _, _)
RECURSIVE TryAlt(_, _, _, _, _, _)

\* a quantifier whose class runs over run characters: no match below its minimum;
\* otherwise greedy starts from the whole run and lazy from the minimum
RepFrom(br, k, s, i, ci, run) ==
    IF run < br[k].min THEN -1
    ELSE TryRep(br, k, s, i, ci, IF br[k].lazy THEN br[k].min ELSE run, run)

\* The end offset of the match of nodes k.. of branch br at offset i, or -1.
MatchSeq(br, k, s, i, ci) ==
    IF k > Len(br) THEN i
    ELSE LET n == br[k] IN
         CASE n.t = "lit" -> IF LitAt(n.s, s, i, ci) THEN MatchSeq(br, k + 1, s, i + Len(n.s), ci) ELSE -1
           [] n.t = "rep" -> RepFrom(br, k, s, i, ci, RunLen(n, s, i, ci, 0))
           [] n.t = "alt" -> TryAlt(br, k, s, i, ci, 1)
           [] n.t = "bol" -> IF i = 0 THEN MatchSeq(br, k + 1, s, i, ci) ELSE -1
           [] n.t = "eol" -> IF i = Len(s) THEN MatchSeq(br, k + 1, s, i, ci) ELSE -1
           [] n.t = "wb"  -> IF WordBoundary(s, i) THEN MatchSeq(br, k + 1, s, i, ci) ELSE -1
           [] n.t = "nla" -> IF LitAt(n.s, s, i, ci) THEN -1 ELSE MatchSeq(br, k + 1, s, i, ci)

\* the quantifier of node k takes cnt characters; greedy counts down, lazy counts up
TryRep(br, k, s, i, ci, cnt, run) ==
    OrElse(MatchSeq(br, k + 1, s, i + cnt, ci),
           IF br[k].lazy
           THEN (IF cnt < run THEN TryRep(br, k, s, i, ci, cnt + 1, run) ELSE -1)
           ELSE (IF cnt > br[k].min THEN TryRep(br, k, s, i, ci, cnt - 1, run) ELSE -1))

TryAlt(br, k, s, i, ci, a) ==
    IF a > Len(br[k].alts) THEN -1
    ELSE OrElse(IF LitAt(br[k].alts[a], s, i, ci)
                THEN MatchSeq(br, k + 1, s, i + Len(br[k].alts[a]), ci) ELSE -1,
                TryAlt(br, k, s, i, ci, a + 1))

\* the end offset of the match of re that starts at offset i, or -1
RECURSIVE MatchAt(_, _, _, _)
MatchAt(re, s, i, b) ==
    IF b > Len(re.alts) THEN -1
    ELSE OrElse(MatchSeq(re.alts[b], 1, s, i, re.ci), MatchAt(re, s, i, b + 1))

\* RegExp.prototype.exec from offset from: [index, end] of the leftmost match, or NoMatch
NoMatch == [index |-> -1, end |-> -1]
MatchFrom(from, r, next) == IF r # -1 THEN [index |-> from, end |-> r] ELSE next
RECURSIVE Exec(_, _, _)
Exec(re, s, from) ==
    IF from > Len(s) THEN NoMatch
    ELSE MatchFrom(from, MatchAt(re, s, from, 1), Exec(re, s, from + 1))

\* RegExp.prototype.test of a regular expression without the 'g' flag, or of a
\* freshly constructed one (lastIndex = 0)
Test(re, s) == Exec(re, s, 0).index # -1

\* RegExp.prototype.test of a shared regular expression with the 'g' flag: the
\* search starts at from, the lastIndex of the expression, and lastIndex becomes the end of the match, or 0
Tested(m) == [found |-> m.index # -1, lastIndex |-> IF m.index # -1 THEN m.end ELSE 0]
TestG(re, s, from) == Tested(Exec(re, s, from))

\* String.prototype.includes
Includes(s, sub) == \E i \in 0..Len(s) : LitAt(sub, s, i, FALSE)

\* String.prototype.trim
RECURSIVE TrimLeft(_)
TrimLeft(s) == IF s # <<>> /\ Head(s) \in SpaceChars THEN TrimLeft(Tail(s)) ELSE s
RECURSIVE TrimRight(_)
TrimRight(s) == IF s # <<>> /\ s[Len(s)] \in SpaceChars THEN TrimRight(SubSeq(s, 1, Len(s) - 1)) ELSE s
Trim(s) == TrimRight(TrimLeft(s))

----------------------------------------------------------------------------
(* Policy profiles (src/security/config.ts).                               *)

STRICT == "strict"
BALANCED == "balanced"
PERMISSIVE == "permissive"
DEVELOPMENT == "development"
SecurityLevel == {STRICT, BALANCED, PERMISSIVE, DEVELOPMENT}

BalancedFunctionCalls ==
    << <<"q","u","e","r","y","S","e","l","e","c","t","o","r">>, <<"q","u","e","r","y","S","e","l","e","c","t","o","r","A","l","l">>, <<"g","e","t","E","l","e","m","e","n","t","B","y","I","d">>,
       <<"g","e","t","E","l","e","m","e","n","t","s","B","y","C","l","a","s","s","N","a","m","e">>, <<"g","e","t","E","l","e","m","e","n","t","s","B","y","T","a","g","N","a","m","e">>, <<"g","e","t","C","o","m","p","u","t","e","d","S","t","y","l","e">>,
       <<"g","e","t","B","o","u","n","d","i","n","g","C","l","i","e","n","t","R","e","c","t">>, <<"f","o","c","u","s">>, <<"b","l","u","r">>, <<"s","c","r","o","l","l","I","n","t","o","V","i","e","w">>,
       <<"d","i","s","p","a","t","c","h","E","v","e","n","t">> >>

\* A faulty allow-list of the Permissive profile, against which the order of the
\* levels is validated: it lacks the calls that Balanced allows.
PermissiveFunctionCallsAlone ==
    << <<"c","l","i","c","k">>, <<"s","u","b","m","i","t">>, <<"a","d","d","E","v","e","n","t","L","i","s","t","e","n","e","r">>, <<"r","e","m","o","v","e","E","v","e","n","t","L","i","s","t","e","n","e","r">> >>

PermissiveFunctionCalls ==
    BalancedFunctionCalls \o
    << <<"c","l","i","c","k">>, <<"s","u","b","m","i","t">>, <<"a","d","d","E","v","e","n","t","L","i","s","t","e","n","e","r">>, <<"r","e","m","o","v","e","E","v","e","n","t","L","i","s","t","e","n","e","r">> >>

SECURITY_PROFILES ==
    [l \in SecurityLevel |->
        CASE l = STRICT ->
               [level |-> STRICT, allowUIInteractions |-> FALSE, allowDOMQueries |-> FALSE,
                allowPropertyAccess |-> TRUE, allowAssignments |-> FALSE,
                allowFunctionCalls |-> <<>>, riskThreshold |-> "low"]
          [] l = BALANCED ->
               [level |-> BALANCED, allowUIInteractions |-> TRUE, allowDOMQueries |-> TRUE,
                allowPropertyAccess |-> TRUE, allowAssignments |-> FALSE,
                allowFunctionCalls |-> BalancedFunctionCalls, riskThreshold |-> "medium"]
          [] l = PERMISSIVE ->
               [level |-> PERMISSIVE, allowUIInteractions |-> TRUE, allowDOMQueries |-> TRUE,
                allowPropertyAccess |-> TRUE, allowAssignments |-> TRUE,
                allowFunctionCalls |-> PermissiveFunctionCalls, riskThreshold |-> "high"]
          [] l = DEVELOPMENT ->
               [level |-> DEVELOPMENT, allowUIInteractions |-> TRUE, allowDOMQueries |-> TRUE,
                allowPropertyAccess |-> TRUE, allowAssignments |-> TRUE,
                allowFunctionCalls |-> << <<"*">> >>, riskThreshold |-> "critical"]]

\* the values process.env.SECURITY_LEVEL takes in the model: unset (the empty
\* text), a level name in lower case, one in upper case, and a name of no level
EnvUnset == <<>>
EnvLevelValues == { EnvUnset, <<"s","t","r","i","c","t">>, <<"D","E","V","E","L","O","P","M","E","N","T">>, <<"p","a","r","a","n","o","i","d">> }

\* String.prototype.toLowerCase
LowerCase(s) == [i \in DOMAIN s |-> ToLower(s[i])]

\* the level whose enum value is the text s, or "none"
LevelNamed(s) ==
    CASE s = <<"s","t","r","i","c","t">> -> STRICT
      [] s = <<"b","a","l","a","n","c","e","d">> -> BALANCED
      [] s = <<"p","e","r","m","i","s","s","i","v","e">> -> PERMISSIVE
      [] s = <<"d","e","v","e","l","o","p","m","e","n","t">> -> DEVELOPMENT
      [] OTHER -> "none"

\* getDefaultSecurityLevel(): the level named by SECURITY_LEVEL, case-insensitively,
\* or BALANCED when it is unset or names no level
getDefaultSecurityLevel(envSecurityLevel) ==
    IF envSecurityLevel # EnvUnset /\ LevelNamed(LowerCase(envSecurityLevel)) # "none"
    THEN LevelNamed(LowerCase(envSecurityLevel))
    ELSE BALANCED

----------------------------------------------------------------------------
(* The texts the model draws its inputs from.                              *)

\* command strings: the fixed commands of the tool handlers, simple command
\* names, the evaluation command, and command strings that carry code
CmdGetWindowInfo == <<"g","e","t","_","w","i","n","d","o","w","_","i","n","f","o">>
CmdTakeScreenshot == <<"t","a","k","e","_","s","c","r","e","e","n","s","h","o","t">>
CmdListWindows == <<"l","i","s","t","_","w","i","n","d","o","w","s">>
CmdEval == <<"e","v","a","l">>
CmdEmpty == <<>>
SimpleCommands == { CmdGetWindowInfo, CmdTakeScreenshot, <<"g","e","t","_","t","i","t","l","e">>, <<"g","e","t","_","u","r","l">> }
RiskyCommands == { <<"e","v","a","l",":","p","r","o","c","e","s","s",".","e","x","i","t","(","1",")">>, <<"e","v","a","l",":","w","i","n","d","o","w",".","l","o","c","a","t","i","o","n"," ","="," ","\"","j","a","v","a","s","c","r","i","p","t",":","a","l","e","r","t","(","1",")","\"">> }
CodeCommands == { <<"j","a","v","a","s","c","r","i","p","t",":","a","l","e","r","t","(","1",")">>, <<"t","y","p","e","o","f"," ","F","u","n","c","t","i","o","n">>, <<"x"," ","j","a","v","a","s","c","r","i","p","t",":","y">> }
\* an evaluation-type command the classifier accepts and the sandbox pre-check rejects
CmdFetch == <<"e","v","a","l",":","f","e","t","c","h","(","1",")">>
\* command strings with markup, comparison operators, quotes and a nested scheme
SyntaxCommands == { <<"<","s","c","r","i","p","t",">","x","<","/","s","c","r","i","p","t",">","y">>, <<"a","<","b","&","&","c",">","d">>, <<"a",">","b">>, <<"s","a","y"," ","\"","h","i","\"">>,
                    <<"j","a","v","a","j","a","v","a","s","c","r","i","p","t",":","s","c","r","i","p","t",":","x">> }
CommandTexts ==
    SimpleCommands \cup RiskyCommands \cup CodeCommands \cup SyntaxCommands
    \cup { CmdListWindows, CmdEval, CmdEmpty, CmdFetch, <<"t","e","s","t","_","c","o","m","m","a","n","d">> }

\* the code of evaluation requests
ObjectObject == <<"[","o","b","j","e","c","t"," ","O","b","j","e","c","t","]">>
\* evaluation codes of DOM-query call shape: one call of a query function of document
DomQueryCodes == { <<"d","o","c","u","m","e","n","t",".","q","u","e","r","y","S","e","l","e","c","t","o","r","(","\"","a","\"",")">>, <<"d","o","c","u","m","e","n","t",".","q","u","e","r","y","S","e","l","e","c","t","o","r","A","l","l","(","\"","l","i","\"",")">>,
                   <<"d","o","c","u","m","e","n","t",".","g","e","t","E","l","e","m","e","n","t","B","y","I","d","(","\"","a","\"",")">>, <<"d","o","c","u","m","e","n","t",".","g","e","t","E","l","e","m","e","n","t","s","B","y","C","l","a","s","s","N","a","m","e","(","\"","b","\"",")">>,
                   <<"d","o","c","u","m","e","n","t",".","g","e","t","E","l","e","m","e","n","t","s","B","y","T","a","g","N","a","m","e","(","\"","p","\"",")">>,
                   <<"d","o","c","u","m","e","n","t",".","q","u","e","r","y","S","e","l","e","c","t","o","r","(","\"","[","a","=","b","]",":","n","o","t","(","c",")","\"",")">> }
\* codes that call functions: one outside every allow-list, alone and next to
\* an allowed one, one whose name contains an allowed name, and UI interactions
CallCodes == { <<"g","o","(",")">>, <<"g","o","(","b","l","u","r","(",")",")">>, <<"b","l","u","r","(",")",";","g","o","(",")">>, <<"m","y","b","l","u","r","(",")">>, <<"a",".","f","o","c","u","s","(",")">>, <<"a",".","c","l","i","c","k","(",")">> }
EvalCodes == { <<"d","o","c","u","m","e","n","t",".","t","i","t","l","e">>, <<"p","r","o","c","e","s","s",".","e","n","v">>, <<"r","e","q","u","i","r","e","(","\"","f","s","\"",")">>, <<"1","+","1">>, <<"x"," ","="," ","1">> }
             \cup DomQueryCodes \cup CallCodes
EvalTexts == EvalCodes \cup {ObjectObject}

\* the length of the longest command string, the largest lastIndex a shared
\* regular expression can hold
RECURSIVE MaxOf(_)
MaxOf(S) == IF S = {} THEN 0
            ELSE LET x == CHOOSE y \in S : TRUE
                     m == MaxOf(S \ {x})
                 IN  IF x > m THEN x ELSE m
LongestCommand == MaxOf({Len(c) : c \in CommandTexts})

----------------------------------------------------------------------------
(* The risk classifier (src/security/validation.ts, class InputValidator). *)

DANGEROUS_KEYWORDS ==
    << <<"F","u","n","c","t","i","o","n">>, <<"c","o","n","s","t","r","u","c","t","o","r">>, <<"_","_","p","r","o","t","o","_","_">>, <<"p","r","o","t","o","t","y","p","e">>, <<"p","r","o","c","e","s","s">>,
       <<"r","e","q","u","i","r","e">>, <<"i","m","p","o","r","t">>, <<"f","s">>, <<"c","h","i","l","d","_","p","r","o","c","e","s","s">>, <<"e","x","e","c">>, <<"s","p","a","w","n">>,
       <<"f","o","r","k">>, <<"c","l","u","s","t","e","r">>, <<"w","o","r","k","e","r","_","t","h","r","e","a","d","s">>, <<"v","m">>, <<"r","e","p","l">>, <<"r","e","a","d","l","i","n","e">>,
       <<"c","r","y","p","t","o">>, <<"h","t","t","p">>, <<"h","t","t","p","s">>, <<"n","e","t">>, <<"d","g","r","a","m">>, <<"t","l","s">>, <<"u","r","l">>,
       <<"q","u","e","r","y","s","t","r","i","n","g">>, <<"p","a","t","h">>, <<"o","s">>, <<"u","t","i","l">>, <<"e","v","e","n","t","s">>, <<"s","t","r","e","a","m">>,
       <<"b","u","f","f","e","r">>, <<"t","i","m","e","r","s">>, <<"s","e","t","I","m","m","e","d","i","a","t","e">>, <<"c","l","e","a","r","I","m","m","e","d","i","a","t","e">>,
       <<"s","e","t","T","i","m","e","o","u","t">>, <<"c","l","e","a","r","T","i","m","e","o","u","t">>, <<"s","e","t","I","n","t","e","r","v","a","l">>, <<"c","l","e","a","r","I","n","t","e","r","v","a","l">>,
       <<"g","l","o","b","a","l">>, <<"g","l","o","b","a","l","T","h","i","s">> >>

\* the shared (static) regular expressions; all carry the 'g' flag
XSS_PATTERNS ==
    << Re1(<<Lit(<<"<","s","c","r","i","p","t">>), NotStar({">"}), Lit(<<">">>), AnyLazy, Lit(<<"<","/","s","c","r","i","p","t",">">>)>>, TRUE),
       Re1(<<Lit(<<"j","a","v","a","s","c","r","i","p","t",":">>)>>, TRUE),
       Re1(<<Lit(<<"o","n">>), Plus(WordChars), Star(SpaceChars), Lit(<<"=">>)>>, TRUE),
       Re1(<<Lit(<<"<","i","f","r","a","m","e">>), NotStar({">"}), Lit(<<">">>)>>, TRUE),
       Re1(<<Lit(<<"<","o","b","j","e","c","t">>), NotStar({">"}), Lit(<<">">>)>>, TRUE),
       Re1(<<Lit(<<"<","e","m","b","e","d">>), NotStar({">"}), Lit(<<">">>)>>, TRUE),
       Re1(<<Lit(<<"<","l","i","n","k">>), NotStar({">"}), Lit(<<">">>)>>, TRUE),
       Re1(<<Lit(<<"<","m","e","t","a">>), NotStar({">"}), Lit(<<">">>)>>, TRUE) >>

INJECTION_PATTERNS ==
    << Re1(<<One(Quotes), Lit(<<";">>), Star(SpaceChars),
             Alt(<< <<"d","r","o","p">>, <<"d","e","l","e","t","e">>, <<"i","n","s","e","r","t">>, <<"u","p","d","a","t","e">>, <<"s","e","l","e","c","t">>,
                    <<"u","n","i","o","n">>, <<"e","x","e","c">>, <<"e","x","e","c","u","t","e">> >>),
             Plus(SpaceChars)>>, TRUE),
       Re1(<<Lit(<<"$","{">>), NotStar({"}"}), Lit(<<"}">>)>>, FALSE),
       Re1(<<Lit(<<Backtick>>), NotStar({Backtick}), Lit(<<Backtick>>)>>, FALSE),
       Re1(<<Lit(<<"e","v","a","l">>), Star(SpaceChars), Lit(<<"(">>)>>, TRUE),
       Re1(<<Lit(<<"n","e","w">>), Plus(SpaceChars), Lit(<<"F","u","n","c","t","i","o","n">>), Star(SpaceChars), Lit(<<"(">>)>>, TRUE),
       Re1(<<Lit(<<"w","i","n","d","o","w">>), Star(SpaceChars), Lit(<<"[">>), Star(SpaceChars),
             One(Quotes), Lit(<<"F","u","n","c","t","i","o","n">>), One(Quotes),
             Star(SpaceChars), Lit(<<"]">>)>>, TRUE) >>

\* lastIndex of every shared regular expression when the module is loaded
InitialLastIndex == [xss |-> [p \in DOMAIN XSS_PATTERNS |-> 0],
                     inj |-> [p \in DOMAIN INJECTION_PATTERNS |-> 0]]

\* new RegExp('\\b' + keyword + '\\b', 'gi')
KeywordRegExp(keyword) == Re1(<<Wb, Lit(keyword), Wb>>, TRUE)

\* items[i] for the indexes i, in order, at which hit[i] holds
RECURSIVE CollectFrom(_, _, _)
CollectFrom(hit, items, i) ==
    IF i > Len(hit) THEN <<>>
    ELSE (IF hit[i] THEN <<items[i]>> ELSE <<>>) \o CollectFrom(hit, items, i + 1)
Collect(hit, items) == CollectFrom(hit, items, 1)

Count(s, set) == Cardinality({i \in DOMAIN s : s[i] \in set})

\* number of non-overlapping matches of re in s (String.prototype.match with 'g')
RECURSIVE CountMatches(_, _, _)
CountFrom(re, s, m) == IF m.index = -1 THEN 0 ELSE 1 + CountMatches(re, s, m.end)
CountMatches(re, s, from) == CountFrom(re, s, Exec(re, s, from))

\* calculateObfuscationScore, in tenths.  The code adds doubles in this order:
\* 0.3, 0.2, 0.2, 0.2, 0.1, 0.2; every sum is the nearest double of the exact sum
\* except 0.2 + 0.2 + 0.2 + 0.1 = 0.7000000000000001, which exceeds 0.7.
ObfuscationFlags(code) ==
    LET length == Len(code)
        specialChars == Cardinality({i \in DOMAIN code : code[i] \notin AlnumSpace})
        brackets == Count(code, {"(", ")", "{", "}", "[", "]"})
        hex == Re1(<<Lit(<<"\\","x">>), One(HexDigits), One(HexDigits)>>, FALSE)
        uni == Re1(<<Lit(<<"\\","u">>), One(HexDigits), One(HexDigits), One(HexDigits), One(HexDigits)>>, FALSE)
        oct == Re1(<<Lit(<<"\\">>), One(OctalDigits), One(OctalDigits), One(OctalDigits)>>, FALSE)
        concat == Re1(<<Lit(<<"+">>), Star(SpaceChars), One(Quotes \cup {Backtick})>>, FALSE)
    IN  << 10 * specialChars > 3 * length,
           5 * brackets > length,
           Test(hex, code),
           Test(uni, code),
           Test(oct, code),
           CountMatches(concat, code, 0) > 5 >>

ObfuscationWeights == <<3, 2, 2, 2, 1, 2>>

RECURSIVE SumWeights(_, _)
SumWeights(flags, i) ==
    IF i > Len(flags) THEN 0
    ELSE (IF flags[i] THEN ObfuscationWeights[i] ELSE 0) + SumWeights(flags, i + 1)

Min(a, b) == IF a < b THEN a ELSE b

calculateObfuscationScore(code) ==
    IF Len(code) = 0 THEN 0 ELSE Min(SumWeights(ObfuscationFlags(code), 1), 10)

\* obfuscationScore > 0.7 on the doubles the code computes
ObfuscationExceeds(code) ==
    /\ Len(code) # 0
    /\ \/ SumWeights(ObfuscationFlags(code), 1) > 7
       \/ ObfuscationFlags(code) = <<FALSE, TRUE, TRUE, TRUE, TRUE, FALSE>>

\* an error message: its fixed text and the text or the number it interpolates
Err(msg, text, num) == [msg |-> msg, text |-> text, num |-> num]

\* the 'Function' keyword is reported only for a constructor call that is neither
\* a leading function expression nor a leading function declaration
FunctionKeywordReported(command) ==
    LET isFunctionExpression ==
            Test(Re1(<<Bol, Star(SpaceChars), Lit(<<"(">>), Star(SpaceChars), Lit(<<"f","u","n","c","t","i","o","n">>),
                       Star(SpaceChars), Lit(<<"(">>)>>, FALSE), Trim(command))
        isFunctionDeclaration ==
            Test(Re1(<<Bol, Star(SpaceChars), Lit(<<"f","u","n","c","t","i","o","n">>), Plus(SpaceChars),
                       Plus(WordChars), Star(SpaceChars), Lit(<<"(">>)>>, FALSE), Trim(command))
        isFunctionConstructor ==
            Test(RegExp(<< <<Lit(<<"n","e","w">>), Plus(SpaceChars), Lit(<<"F","u","n","c","t","i","o","n">>), Star(SpaceChars), Lit(<<"(">>)>>,
                           <<Alt(<< <<"w","i","n","d","o","w",".">>, <<"g","l","o","b","a","l",".">>, <<>> >>), Lit(<<"F","u","n","c","t","i","o","n">>),
                             Star(SpaceChars), Lit(<<"(">>)>> >>, TRUE), command)
    IN  isFunctionConstructor /\ ~isFunctionExpression /\ ~isFunctionDeclaration

MaxCommandLength == 5000

\* for (const keyword of DANGEROUS_KEYWORDS): the keywords validateCommandContent
\* reports for the command
ScanKeywords(command) ==
    [k \in DOMAIN DANGEROUS_KEYWORDS |->
        /\ Test(KeywordRegExp(DANGEROUS_KEYWORDS[k]), command)
        /\ (DANGEROUS_KEYWORDS[k] = <<"F","u","n","c","t","i","o","n">> => FunctionKeywordReported(command))]
ScanKeywordsTable == [c \in CommandTexts |-> ScanKeywords(c)]

\* the obfuscation check of the command: the score and whether it exceeds 0.7
ScanObfuscation(command) ==
    [score |-> calculateObfuscationScore(command), exceeds |-> ObfuscationExceeds(command)]
ScanObfuscationTable == [c \in CommandTexts |-> ScanObfuscation(c)]

\* pattern.test(command) for every shared pattern, from every lastIndex
SharedTests(patterns, command) ==
    [p \in DOMAIN patterns |-> [i \in 0..LongestCommand |-> TestG(patterns[p], command, i)]]
XssTable == [c \in CommandTexts |-> SharedTests(XSS_PATTERNS, c)]
InjectionTable == [c \in CommandTexts |-> SharedTests(INJECTION_PATTERNS, c)]

\* pattern.test(command) for every pattern of a shared list whose lastIndex values
\* are lis: what each test finds and the lastIndex it leaves
SharedNow(tests, lis) == [p \in DOMAIN tests |-> tests[p][lis[p]]]
Found(tests) == [p \in DOMAIN tests |-> tests[p].found]
LastIndexes(tests) == [p \in DOMAIN tests |-> tests[p].lastIndex]

\* the errors and the risk factors validateCommandContent collects, in its order:
\* keywords, XSS patterns, injection patterns, length, obfuscation
ContentResult(command, keywordHit, xss, inj, obfuscation) ==
    [errors |->
        Collect(keywordHit, [k \in DOMAIN DANGEROUS_KEYWORDS |->
                                Err("Dangerous keyword detected", DANGEROUS_KEYWORDS[k], 0)])
        \o Collect(Found(xss), [p \in DOMAIN XSS_PATTERNS |-> Err("Potential XSS pattern detected", <<>>, 0)])
        \o Collect(Found(inj), [p \in DOMAIN INJECTION_PATTERNS |->
                                Err("Potential code injection detected", <<>>, 0)])
        \o (IF Len(command) > MaxCommandLength
            THEN <<Err("Command too long", <<>>, Len(command))>> ELSE <<>>)
        \o (IF obfuscation.exceeds
            THEN <<Err("Potential code obfuscation detected", <<>>, obfuscation.score)>>
            ELSE <<>>),
     riskFactors |->
        Collect(keywordHit, [k \in DOMAIN DANGEROUS_KEYWORDS |->
                                <<"d","a","n","g","e","r","o","u","s","_","k","e","y","w","o","r","d","_">> \o DANGEROUS_KEYWORDS[k]])
        \o Collect(Found(xss), [p \in DOMAIN XSS_PATTERNS |-> <<"x","s","s","_","p","a","t","t","e","r","n">>])
        \o Collect(Found(inj), [p \in DOMAIN INJECTION_PATTERNS |-> <<"i","n","j","e","c","t","i","o","n","_","p","a","t","t","e","r","n">>])
        \o (IF Len(command) > MaxCommandLength THEN << <<"e","x","c","e","s","s","i","v","e","_","l","e","n","g","t","h">> >> ELSE <<>>)
        \o (IF obfuscation.exceeds THEN << <<"o","b","f","u","s","c","a","t","i","o","n">> >> ELSE <<>>),
     li |-> [xss |-> LastIndexes(xss), inj |-> LastIndexes(inj)]]

\* validateCommandContent(command) with the shared regular expressions in state li:
\* the errors, the risk factors and the state li the call leaves behind
validateCommandContent(command, li) ==
    ContentResult(command, ScanKeywordsTable[command],
                  SharedNow(XssTable[command], li.xss),
                  SharedNow(InjectionTable[command], li.inj),
                  ScanObfuscationTable[command])

\* the text of a capture group (\w+) that starts at offset index of code
WordFrom(code, index) ==
    SubSeq(code, index + 1, index + RunLen(Plus(WordChars), code, index, FALSE, 0))

\* ^prefix\([^)]+\)$
CallShape(prefix) == Re1(<<Bol, Lit(prefix), Lit(<<"(">>), NotPlus({")"}), Lit(<<")">>), Eol>>, FALSE)

safePatterns ==
    << Re1(<<Bol, Lit(<<"d","o","c","u","m","e","n","t",".">>), Alt(<< <<"t","i","t","l","e">>, <<"l","o","c","a","t","i","o","n">>, <<"U","R","L">>, <<"d","o","m","a","i","n">> >>), Eol>>, FALSE),
       Re1(<<Bol, Lit(<<"w","i","n","d","o","w",".">>), Alt(<< <<"l","o","c","a","t","i","o","n">>, <<"n","a","v","i","g","a","t","o","r">>, <<"s","c","r","e","e","n">> >>), Eol>>, FALSE),
       Re1(<<Bol, Lit(<<"M","a","t","h",".">>), Plus(WordChars), Eol>>, FALSE),
       Re1(<<Bol, Lit(<<"D","a","t","e",".">>), Plus(WordChars), Eol>>, FALSE),
       Re1(<<Bol, Lit(<<"J","S","O","N",".">>), Alt(<< <<"p","a","r","s","e">>, <<"s","t","r","i","n","g","i","f","y">> >>), Eol>>, FALSE),
       Re1(<<Bol, Plus(WordChars \cup {".", "[", "]", "'", DoubleQuote}), Eol>>, FALSE) >>

domQueryPatterns(profile) ==
    IF profile.allowDOMQueries
    THEN << CallShape(<<"d","o","c","u","m","e","n","t",".","q","u","e","r","y","S","e","l","e","c","t","o","r">>),
            CallShape(<<"d","o","c","u","m","e","n","t",".","q","u","e","r","y","S","e","l","e","c","t","o","r","A","l","l">>),
            CallShape(<<"d","o","c","u","m","e","n","t",".","g","e","t","E","l","e","m","e","n","t","B","y","I","d">>),
            CallShape(<<"d","o","c","u","m","e","n","t",".","g","e","t","E","l","e","m","e","n","t","s","B","y","C","l","a","s","s","N","a","m","e">>),
            CallShape(<<"d","o","c","u","m","e","n","t",".","g","e","t","E","l","e","m","e","n","t","s","B","y","T","a","g","N","a","m","e">>),
            Re1(<<Bol, Lit(<<"d","o","c","u","m","e","n","t",".","a","c","t","i","v","e","E","l","e","m","e","n","t">>), Eol>>, FALSE) >>
    ELSE <<>>

uiInteractionPatterns(profile) ==
    IF profile.allowUIInteractions
    THEN << CallShape(<<"w","i","n","d","o","w",".","g","e","t","C","o","m","p","u","t","e","d","S","t","y","l","e">>),
            Re1(<<Bol, Plus(WordChars \cup {"."}), Lit(<<".">>),
                  Alt(<< <<"t","e","x","t","C","o","n","t","e","n","t">>, <<"i","n","n","e","r","T","e","x","t">>, <<"i","n","n","e","r","H","T","M","L">>, <<"v","a","l","u","e">>, <<"c","h","e","c","k","e","d">>,
                         <<"s","e","l","e","c","t","e","d">>, <<"d","i","s","a","b","l","e","d">>, <<"h","i","d","d","e","n">> >>), Eol>>, FALSE),
            Re1(<<Bol, Plus(WordChars \cup {"."}), Lit(<<".">>),
                  Alt(<< <<"c","l","i","e","n","t","W","i","d","t","h">>, <<"c","l","i","e","n","t","H","e","i","g","h","t">>, <<"o","f","f","s","e","t","W","i","d","t","h">>, <<"o","f","f","s","e","t","H","e","i","g","h","t">>,
                         <<"g","e","t","B","o","u","n","d","i","n","g","C","l","i","e","n","t","R","e","c","t">> >>), Eol>>, FALSE),
            Re1(<<Bol, Plus(WordChars \cup {"."}), Lit(<<".">>),
                  Alt(<< <<"f","o","c","u","s">>, <<"b","l","u","r">>, <<"s","c","r","o","l","l","I","n","t","o","V","i","e","w">> >>), Lit(<<"(",")">>), Eol>>, FALSE) >>
    ELSE <<>>

\* patterns.some((pattern) => pattern.test(text))
SomeTest(patterns, text) == \E p \in DOMAIN patterns : Test(patterns[p], text)

\* /\(\s*\)|\w+\s*\(/
FunctionCallRegExp ==
    RegExp(<< <<Lit(<<"(">>), Star(SpaceChars), Lit(<<")">>)>>,
              <<Plus(WordChars), Star(SpaceChars), Lit(<<"(">>)>> >>, FALSE)
\* /(\w+)\s*\(/
FunctionNameRegExp == Re1(<<Plus(WordChars), Star(SpaceChars), Lit(<<"(">>)>>, FALSE)
\* /=(?!=)/
AssignmentRegExp == Re1(<<Lit(<<"=">>), Nla(<<"=">>)>>, FALSE)

\* validateEvalContent(code) under the profile of the active level
ScanEvalContent(code, level) ==
    LET profile == SECURITY_PROFILES[level]
        isSafe == \/ SomeTest(safePatterns, Trim(code))
                  \/ SomeTest(domQueryPatterns(profile), Trim(code))
                  \/ SomeTest(uiInteractionPatterns(profile), Trim(code))
        keywordHit == [k \in DOMAIN DANGEROUS_KEYWORDS |->
                          Test(KeywordRegExp(DANGEROUS_KEYWORDS[k]), code)]
        hasFunctionCall == Test(FunctionCallRegExp, code)
        functionMatch == Exec(FunctionNameRegExp, code, 0)
        functionName == IF functionMatch.index # -1 THEN WordFrom(code, functionMatch.index) ELSE <<>>
        isAllowedFunction ==
            \/ \E a \in DOMAIN profile.allowFunctionCalls : profile.allowFunctionCalls[a] = <<"*">>
            \/ \E a \in DOMAIN profile.allowFunctionCalls :
                  \/ Includes(functionName, profile.allowFunctionCalls[a])
                  \/ Includes(code, profile.allowFunctionCalls[a] \o <<"(">>)
        callRestricted == hasFunctionCall /\ ~isAllowedFunction
        assignRestricted == Test(AssignmentRegExp, code) /\ ~profile.allowAssignments
    IN  IF isSafe THEN [errors |-> <<>>, riskFactors |-> <<>>]
        ELSE [errors |->
                 Collect(keywordHit, [k \in DOMAIN DANGEROUS_KEYWORDS |->
                            Err("Dangerous keyword detected in eval", DANGEROUS_KEYWORDS[k], 0)])
                 \o (IF callRestricted
                     THEN <<Err("Function calls in eval are restricted", functionName, 0)>> ELSE <<>>)
                 \o (IF assignRestricted
                     THEN <<Err("Assignment operations in eval are restricted", <<>>, 0)>> ELSE <<>>),
              riskFactors |->
                 Collect(keywordHit, [k \in DOMAIN DANGEROUS_KEYWORDS |->
                            <<"e","v","a","l","_","d","a","n","g","e","r","o","u","s","_","k","e","y","w","o","r","d","_">> \o DANGEROUS_KEYWORDS[k]])
                 \o (IF callRestricted THEN << <<"e","v","a","l","_","f","u","n","c","t","i","o","n","_","c","a","l","l">> >> ELSE <<>>)
                 \o (IF assignRestricted THEN << <<"e","v","a","l","_","a","s","s","i","g","n","m","e","n","t">> >> ELSE <<>>)]

ScanEvalContentTable == [code \in EvalTexts |-> [l \in SecurityLevel |-> ScanEvalContent(code, l)]]
validateEvalContent(code, level) == ScanEvalContentTable[code][level]

\* riskFactors.filter(pred).length > 0
AnyFactor(riskFactors, a, b) ==
    \E i \in DOMAIN riskFactors : Includes(riskFactors[i], a) \/ Includes(riskFactors[i], b)

\* A faulty calculateRiskLevel, against which the aggregation is validated: it
\* looks for the critical and high factors in the first entry only.
calculateRiskLevelFirstOnly(riskFactors) ==
    IF riskFactors = <<>> THEN "low"
    ELSE IF AnyFactor(<<riskFactors[1]>>, <<"d","a","n","g","e","r","o","u","s","_","k","e","y","w","o","r","d">>, <<"i","n","j","e","c","t","i","o","n","_","p","a","t","t","e","r","n">>) THEN "critical"
    ELSE IF AnyFactor(<<riskFactors[1]>>, <<"x","s","s","_","p","a","t","t","e","r","n">>, <<"o","b","f","u","s","c","a","t","i","o","n">>) \/ Len(riskFactors) > 3 THEN "high"
    ELSE IF Len(riskFactors) > 1 THEN "medium"
    ELSE "low"

calculateRiskLevel(riskFactors) ==
    IF AnyFactor(riskFactors, <<"d","a","n","g","e","r","o","u","s","_","k","e","y","w","o","r","d">>, <<"i","n","j","e","c","t","i","o","n","_","p","a","t","t","e","r","n">>) THEN "critical"
    ELSE IF AnyFactor(riskFactors, <<"x","s","s","_","p","a","t","t","e","r","n">>, <<"o","b","f","u","s","c","a","t","i","o","n">>) \/ Len(riskFactors) > 3 THEN "high"
    ELSE IF Len(riskFactors) > 1 THEN "medium"
    ELSE "low"

\* String.prototype.replace(re, '') with the 'g' flag: s from offset from on, without
\* the matches of re
RECURSIVE RemoveAll(_, _, _)
RemoveFrom(re, s, from, m) ==
    IF m.index = -1 THEN SubSeq(s, from + 1, Len(s))
    ELSE SubSeq(s, from + 1, m.index) \o RemoveAll(re, s, m.end)
RemoveAll(re, s, from) == RemoveFrom(re, s, from, Exec(re, s, from))

RemoveDangerous(command) ==
    LET noScript == RemoveAll(XSS_PATTERNS[1], command, 0)
        noTags == RemoveAll(Re1(<<Lit(<<"<">>), NotStar({">"}), Lit(<<">">>)>>, FALSE), noScript, 0)
    IN  RemoveAll(Re1(<<Lit(<<"j","a","v","a","s","c","r","i","p","t",":">>)>>, TRUE), noTags, 0)

RemoveDangerousTable == [c \in CommandTexts |-> RemoveDangerous(c)]
sanitizeCommand(command) == RemoveDangerousTable[command]

\* The arguments of a command: none (undefined), a string, or an object whose
\* 'code' property is text (empty when absent).
NoArgs == [kind |-> "none", text |-> <<>>]
StringArgs(text) == [kind |-> "string", text |-> text]
ObjectArgs(code) == [kind |-> "object", text |-> code]

\* if (args): undefined and the empty string are falsy, every object is truthy
Truthy(args) == args.kind = "object" \/ (args.kind = "string" /\ args.text # <<>>)

\* String(args)
StringOf(args) == IF args.kind = "object" THEN <<"[","o","b","j","e","c","t"," ","O","b","j","e","c","t","]">> ELSE args.text

MaxSchemaLength == 10000

\* SecureCommandSchema: command is a string of 1 to 10000 characters
SecureCommandSchemaAccepts(input) ==
    Len(input.command) >= 1 /\ Len(input.command) <= MaxSchemaLength

\* parsed.command === 'eval' && parsed.args
EvalMode(input) == input.command = <<"e","v","a","l">> /\ Truthy(input.args)

\* the ValidationResult of a command that passed the schema, and the state li of
\* the shared regular expressions after the call
Result(input, errors, riskLevel, li) ==
    [isValid |-> Len(errors) = 0 /\ riskLevel # "critical",
     errors |-> errors,
     riskLevel |-> riskLevel,
     sanitizedInput |-> [present |-> TRUE, command |-> sanitizeCommand(input.command),
                         args |-> input.args],
     li |-> li]
EvalVerdict(input, commandValidation, li) ==
    Result(input, commandValidation.errors, calculateRiskLevel(commandValidation.riskFactors), li)
ContentVerdict(input, commandValidation) ==
    Result(input, commandValidation.errors, calculateRiskLevel(commandValidation.riskFactors),
           commandValidation.li)

\* validateCommand(input) at the active level with the shared regular expressions
\* in state li: the ValidationResult and the state li the call leaves behind
validateCommand(input, level, li) ==
    IF ~SecureCommandSchemaAccepts(input)
    THEN [isValid |-> FALSE,
          errors |-> <<Err("Invalid input structure", <<>>, 0)>>,
          riskLevel |-> "high",
          sanitizedInput |-> [present |-> FALSE, command |-> <<>>, args |-> NoArgs],
          li |-> li]
    ELSE IF EvalMode(input)
    THEN EvalVerdict(input, validateEvalContent(StringOf(input.args), level), li)
    ELSE ContentVerdict(input, validateCommandContent(input.command, li))

\* InputValidator.setSecurityLevel(level): the value of securityLevel after the call
setSecurityLevel(level) == level

----------------------------------------------------------------------------
(* The sandbox executor (src/security/sandbox.ts, class CodeSandbox).      *)

DEFAULT_BLACKLISTED_FUNCTIONS ==
    << <<"e","v","a","l">>, <<"F","u","n","c","t","i","o","n">>, <<"s","e","t","T","i","m","e","o","u","t">>, <<"s","e","t","I","n","t","e","r","v","a","l">>, <<"s","e","t","I","m","m","e","d","i","a","t","e">>,
       <<"r","e","q","u","i","r","e">>, <<"i","m","p","o","r","t">>, <<"p","r","o","c","e","s","s">>, <<"g","l","o","b","a","l">>, <<"g","l","o","b","a","l","T","h","i","s">>,
       <<"_","_","d","i","r","n","a","m","e">>, <<"_","_","f","i","l","e","n","a","m","e">>, <<"B","u","f","f","e","r">>, <<"X","M","L","H","t","t","p","R","e","q","u","e","s","t">>, <<"f","e","t","c","h">>,
       <<"W","e","b","S","o","c","k","e","t">>, <<"W","o","r","k","e","r">>, <<"S","h","a","r","e","d","W","o","r","k","e","r">>, <<"S","e","r","v","i","c","e","W","o","r","k","e","r">>,
       <<"i","m","p","o","r","t","S","c","r","i","p","t","s">>, <<"p","o","s","t","M","e","s","s","a","g","e">>, <<"c","l","o","s","e">>, <<"o","p","e","n">> >>

DEFAULT_BLACKLISTED_OBJECTS ==
    << <<"f","s">>, <<"c","h","i","l","d","_","p","r","o","c","e","s","s">>, <<"c","l","u","s","t","e","r">>, <<"c","r","y","p","t","o">>, <<"d","g","r","a","m">>, <<"d","n","s">>,
       <<"h","t","t","p">>, <<"h","t","t","p","s">>, <<"n","e","t">>, <<"o","s">>, <<"p","a","t","h">>, <<"s","t","r","e","a","m">>, <<"t","l","s">>,
       <<"u","r","l">>, <<"u","t","i","l">>, <<"v","8">>, <<"v","m">>, <<"w","o","r","k","e","r","_","t","h","r","e","a","d","s">>, <<"z","l","i","b">>,
       <<"p","e","r","f","_","h","o","o","k","s">>, <<"i","n","s","p","e","c","t","o","r">>, <<"r","e","p","l">>, <<"r","e","a","d","l","i","n","e">>, <<"d","o","m","a","i","n">>,
       <<"e","v","e","n","t","s">>, <<"q","u","e","r","y","s","t","r","i","n","g">>, <<"p","u","n","y","c","o","d","e">>, <<"c","o","n","s","t","a","n","t","s">> >>

\* name\s*\(
CallOf(name) == <<Lit(name), Star(SpaceChars), Lit(<<"(">>)>>
\* \[\s*['"`]name['"`]\s*\]
IndexOf(name) == <<Lit(<<"[">>), Star(SpaceChars), One(Quotes \cup {Backtick}), Lit(name),
                   One(Quotes \cup {Backtick}), Star(SpaceChars), Lit(<<"]">>)>>

dangerousPatterns ==
    << Re1(CallOf(<<"r","e","q","u","i","r","e">>), FALSE),
       Re1(<<Lit(<<"i","m","p","o","r","t">>), Plus(SpaceChars), DotStar, Plus(SpaceChars), Lit(<<"f","r","o","m">>)>>, FALSE),
       Re1(<<Lit(<<".","c","o","n","s","t","r","u","c","t","o","r">>)>>, FALSE),
       Re1(<<Lit(<<".","_","_","p","r","o","t","o","_","_">>)>>, FALSE),
       Re1(<<Lit(<<"p","r","o","t","o","t","y","p","e",".">>)>>, FALSE),
       Re1(<<Lit(<<"p","r","o","c","e","s","s",".">>)>>, FALSE),
       Re1(<<Lit(<<"g","l","o","b","a","l",".">>)>>, FALSE),
       Re1(<<Lit(<<"t","h","i","s",".","c","o","n","s","t","r","u","c","t","o","r">>)>>, FALSE),
       Re1(IndexOf(<<"c","o","n","s","t","r","u","c","t","o","r">>), FALSE),
       Re1(IndexOf(<<"_","_","p","r","o","t","o","_","_">>), FALSE),
       Re1(CallOf(<<"F","u","n","c","t","i","o","n">>), FALSE),
       Re1(CallOf(<<"e","v","a","l">>), FALSE),
       Re1(<<Lit(<<"w","i","n","d","o","w",".">>)>>, FALSE),
       Re1(<<Lit(<<"d","o","c","u","m","e","n","t",".">>)>>, FALSE),
       Re1(<<Lit(<<"l","o","c","a","t","i","o","n",".">>)>>, FALSE),
       Re1(<<Lit(<<"h","i","s","t","o","r","y",".">>)>>, FALSE),
       Re1(<<Lit(<<"n","a","v","i","g","a","t","o","r",".">>)>>, FALSE),
       Re1(CallOf(<<"a","l","e","r","t">>), FALSE),
       Re1(CallOf(<<"c","o","n","f","i","r","m">>), FALSE),
       Re1(CallOf(<<"p","r","o","m","p","t">>), FALSE) >>

\* validateCode(code): the errors of the static pre-check, in the order found
CodeResult(errors) == [isValid |-> Len(errors) = 0, errors |-> errors]
ScanCode(code) ==
    CodeResult(
        Collect([f \in DOMAIN DEFAULT_BLACKLISTED_FUNCTIONS |->
                    Test(Re1(<<Wb>> \o CallOf(DEFAULT_BLACKLISTED_FUNCTIONS[f]), FALSE), code)],
                [f \in DOMAIN DEFAULT_BLACKLISTED_FUNCTIONS |->
                    Err("Forbidden function", DEFAULT_BLACKLISTED_FUNCTIONS[f], 0)])
        \o Collect([o \in DOMAIN DEFAULT_BLACKLISTED_OBJECTS |->
                    Test(Re1(<<Wb, Lit(DEFAULT_BLACKLISTED_OBJECTS[o]), Wb>>, FALSE), code)],
                [o \in DOMAIN DEFAULT_BLACKLISTED_OBJECTS |->
                    Err("Forbidden module/object", DEFAULT_BLACKLISTED_OBJECTS[o], 0)])
        \o Collect([p \in DOMAIN dangerousPatterns |-> Test(dangerousPatterns[p], code)],
                [p \in DOMAIN dangerousPatterns |-> Err("Dangerous pattern detected", <<>>, p)]))

\* payloads handed to the sandbox directly: one that returns a value, one that
\* throws, one that never terminates, and one the pre-check rejects
CodeValue == <<"1","+","1">>
CodeThrows == <<"n","u","l","l",".","x">>
CodeLoops == <<"w","h","i","l","e","(","t","r","u","e",")","{","}">>
CodeFetch == <<"f","e","t","c","h","(","1",")">>
\* two more the pre-check rejects: a blacklisted module name, a dangerous pattern
CodeModule == <<"o","s">>
CodePattern == <<"a",".","_","_","p","r","o","t","o","_","_">>
SandboxCodes == { CodeValue, CodeThrows, CodeLoops, CodeFetch, CodeModule, CodePattern }
ScanCodeTable ==
    [code \in {sanitizeCommand(c) : c \in CommandTexts} \cup SandboxCodes |-> ScanCode(code)]

\* A faulty pre-check, against which the rejection is validated: it looks for
\* the blacklisted function calls only.
validateCodeFunctionsOnly(code) ==
    CodeResult(SelectSeq(ScanCodeTable[code].errors, LAMBDA e : e.msg = "Forbidden function"))

validateCode(code) == ScanCodeTable[code]

\* How a run of the wrapper script in the child process ends (executeInIsolation,
\* executeInProcess): the script printed a success result; the payload threw, so
\* the script printed a failure result; the child was killed at the timeout or
\* exited with a nonzero code; the child could not be spawned; the wrapper script
\* could not be written.
SandboxOutcomes == {"completed", "threw", "killed", "spawnError", "writeError"}

\* the SandboxResult of executeCode for a run that ended with outcome
SandboxResultOf(outcome) ==
    IF outcome = "completed"
    THEN [success |-> TRUE, error |-> "none"]
    ELSE [success |-> FALSE,
          error |-> CASE outcome = "threw" -> "payload error"
                      [] outcome = "killed" -> "Process exited with code"
                      [] outcome = "spawnError" -> "spawn error"
                      [] outcome = "writeError" -> "write error"]

\* the SandboxResult of executeCode when the pre-check rejects the code
SandboxRejected == [success |-> FALSE, error |-> "Code validation failed"]

----------------------------------------------------------------------------
(* The audit logger (src/security/config.ts, class SecurityLogger).        *)
(* An AuditLogEntry is a record of its ten fields; an optional field that  *)
(* is absent holds the empty text.  A field of a stored line is            *)
(* [form, iv, text]: form "plain" for a value written as it is, and        *)
(* "aes-256-cbc" or "sha256" for the output of encryptString, which is     *)
(* kept symbolic: the cipher text of text under the key and the iv.  An iv  *)
(* is the pair of the line number and the field it was drawn for.          *)

sensitiveFields == {"command", "error", "sourceIP", "userAgent"}
EntryFields == {"timestamp", "sessionId", "action", "command", "riskLevel", "success",
                "error", "executionTime", "sourceIP", "userAgent"}

Plain(value) == [form |-> "plain", iv |-> <<>>, text |-> value]

KeyBytes == 32

\* encryptString(text): AES-256-CBC under the logger's key and a fresh iv; when
\* the cipher cannot be created (a key file that does not hold 32 bytes) the
\* SHA-256 digest of the text
encryptString(text, key, iv) ==
    IF key.bytes = KeyBytes
    THEN [form |-> "aes-256-cbc", iv |-> iv, text |-> text]
    ELSE [form |-> "sha256", iv |-> <<>>, text |-> text]

\* A faulty encryptLogEntry, against which the property of the stored lines is
\* validated: it encrypts the command and leaves the other fields as they are.
encryptLogEntryCommandOnly(entry, key, ivs) ==
    [f \in EntryFields |->
        IF f = "command" /\ entry[f] # <<>>
        THEN encryptString(entry[f], key, ivs[f])
        ELSE Plain(entry[f])]

\* if (encrypted[field]): the empty text is falsy
\* encryptLogEntry(entry): every truthy sensitive field encrypted with its own iv,
\* every other field copied
encryptLogEntry(entry, key, ivs) ==
    [f \in EntryFields |->
        IF f \in sensitiveFields /\ entry[f] # <<>>
        THEN encryptString(entry[f], key, ivs[f])
        ELSE Plain(entry[f])]

getLogLevel(riskLevel) ==
    CASE riskLevel = "critical" -> "error"
      [] riskLevel = "high" -> "error"
      [] riskLevel = "medium" -> "warn"
      [] OTHER -> "info"

\* What the file system does to one logSecurityEvent call: both fs.mkdir and
\* fs.appendFile succeed; fs.mkdir fails (and so does the append into the missing
\* directory); fs.appendFile alone fails.
FsOutcomes == {"ok", "mkdirFails", "appendFails"}

\* A faulty logSecurityEvent, against which the property of the audit trail is
\* validated: it swallows a failed write without a message.
logSecurityEventSilent(entry, key, ivs, fs, file, console) ==
    IF fs = "ok"
    THEN [file |-> Append(file, encryptLogEntry(entry, key, ivs)),
          console |-> Append(console, [level |-> getLogLevel(entry.riskLevel), msg |-> "Security Event",
                                       sessionId |-> entry.sessionId])]
    ELSE [file |-> file, console |-> console]

\* logSecurityEvent(entry): the lines of the day-file and the messages of the
\* operational log after the call
logSecurityEvent(entry, key, ivs, fs, file, console) ==
    LET dirLog == IF fs = "mkdirFails"
                  THEN Append(console, [level |-> "error", msg |-> "Failed to create log directory",
                                      sessionId |-> entry.sessionId])
                  ELSE console
    IN  IF fs = "ok"
        THEN [file |-> Append(file, encryptLogEntry(entry, key, ivs)),
              console |-> Append(dirLog, [level |-> getLogLevel(entry.riskLevel), msg |-> "Security Event",
                                        sessionId |-> entry.sessionId])]
        ELSE [file |-> file,
              console |-> Append(dirLog, [level |-> "error", msg |-> "Failed to write security log",
                                        sessionId |-> entry.sessionId])]

----------------------------------------------------------------------------
(* The orchestrator (security/manager.ts), modelled from the design        *)
(* document: section 4.5 (executeSecurely, shouldSandbox), section 3       *)
(* (DecisionCache) and section 4.1 (Development disables sandboxing).      *)

RiskRank(riskLevel) ==
    CASE riskLevel = "low" -> 0
      [] riskLevel = "medium" -> 1
      [] riskLevel = "high" -> 2
      [] riskLevel = "critical" -> 3

\* an evaluation-type command: the command 'eval' (validateCommand's special
\* case) or a command string of the form 'eval:...'
IsEvalType(command) ==
    \/ command = <<"e","v","a","l">>
    \/ LitAt(<<"e","v","a","l",":">>, command, 0, FALSE)

\* getSecurityConfig(level).enableSandbox
enableSandbox(level) == level # DEVELOPMENT

\* the uncached sub-check of shouldSandbox: classify the command string alone and
\* decide true when the risk is High or above or the command is evaluation-type
Decision(command, v) ==
    [decision |-> RiskRank(v.riskLevel) >= RiskRank("high") \/ IsEvalType(command),
     li |-> v.li]
FreshSandboxDecision(command, level, li) ==
    Decision(command, validateCommand([command |-> command, args |-> NoArgs], level, li))

\* the DecisionCache: a function from the command strings decided so far to booleans
EmptyCache == [c \in {} |-> FALSE]
CachePut(cache, command, decision) ==
    [c \in DOMAIN cache \cup {command} |-> IF c = command THEN decision ELSE cache[c]]

\* shouldSandbox(command): the cached boolean on a hit; on a miss the fresh
\* decision, which is cached under the raw command string
Missed(command, cache, d) ==
    [result |-> d.decision, hit |-> FALSE,
     cache |-> CachePut(cache, command, d.decision), li |-> d.li]
shouldSandboxCommand(command, level, li, cache) ==
    IF command \in DOMAIN cache
    THEN [result |-> cache[command], hit |-> TRUE, cache |-> cache, li |-> li]
    ELSE Missed(command, cache, FreshSandboxDecision(command, level, li))

\* The synchronous part of executeSecurely(request): classify; Blocked when the
\* verdict is invalid or Critical; otherwise, for a High or evaluation-type
\* command, consult shouldSandbox and hand the sanitized command to the sandbox
\* when it says so; otherwise Allowed directly.
\*   branch: "blocked", "sandbox" or "allowed"
Branch(branch, v, li, cache) ==
    [verdict |-> [isValid |-> v.isValid, riskLevel |-> v.riskLevel, errors |-> Len(v.errors)],
     branch |-> branch, code |-> v.sanitizedInput.command, li |-> li, cache |-> cache]
Consulted(v, s) == Branch(IF s.result THEN "sandbox" ELSE "allowed", v, s.li, s.cache)
Decide(command, level, cache, v) ==
    IF ~v.isValid \/ v.riskLevel = "critical"
    THEN Branch("blocked", v, v.li, cache)
    ELSE IF (v.riskLevel = "high" \/ IsEvalType(command)) /\ enableSandbox(level)
    THEN Consulted(v, shouldSandboxCommand(command, level, v.li, cache))
    ELSE Branch("allowed", v, v.li, cache)
executeSecurelyClassify(command, args, level, li, cache) ==
    Decide(command, level, cache, validateCommand([command |-> command, args |-> args], level, li))

\* the result executeSecurely returns on each terminal branch
BlockedResult(riskLevel) == [blocked |-> TRUE, success |-> FALSE, riskLevel |-> riskLevel]
SandboxFailedResult(riskLevel) == [blocked |-> FALSE, success |-> FALSE, riskLevel |-> riskLevel]
AllowedResult(riskLevel) == [blocked |-> FALSE, success |-> TRUE, riskLevel |-> riskLevel]
NoResult == [blocked |-> FALSE, success |-> FALSE, riskLevel |-> "none"]

\* the audit entry of a terminal branch
AuditEntry(sessionId, timestamp, command, result, error, executionTime, meta) ==
    [timestamp |-> timestamp, sessionId |-> sessionId, action |-> "command_execution",
     command |-> command, riskLevel |-> result.riskLevel, success |-> result.success,
     error |-> error, executionTime |-> executionTime,
     sourceIP |-> meta.sourceIP, userAgent |-> meta.userAgent]

----------------------------------------------------------------------------
(* The tool handlers (src/handlers.ts) and the state of the server.        *)

GET_ELECTRON_WINDOW_INFO == "get_electron_window_info"
TAKE_SCREENSHOT == "take_screenshot"
SEND_COMMAND_TO_ELECTRON == "send_command_to_electron"
READ_ELECTRON_LOGS == "read_electron_logs"
LIST_ELECTRON_WINDOWS == "list_electron_windows"
ToolName == { GET_ELECTRON_WINDOW_INFO, TAKE_SCREENSHOT, SEND_COMMAND_TO_ELECTRON,
              READ_ELECTRON_LOGS, LIST_ELECTRON_WINDOWS }

\* the tools whose handler calls securityManager.executeSecurely
CallsExecuteSecurely(tool) ==
    tool \in { GET_ELECTRON_WINDOW_INFO, TAKE_SCREENSHOT, SEND_COMMAND_TO_ELECTRON,
               LIST_ELECTRON_WINDOWS }

\* the tools whose handler parses its arguments before anything else; the
\* screenshot handler parses them after executeSecurely has returned
ParsesFirst(tool) == tool # TAKE_SCREENSHOT

\* the command the handler passes to executeSecurely
SecuredCommand(tool, command) ==
    CASE tool = GET_ELECTRON_WINDOW_INFO -> CmdGetWindowInfo
      [] tool = TAKE_SCREENSHOT -> CmdTakeScreenshot
      [] tool = LIST_ELECTRON_WINDOWS -> CmdListWindows
      [] OTHER -> command

\* Faulty handlers, against which the properties of the handlers are validated:
\* one that goes on whatever the result is, and one that only looks at blocked.
HandlerProceedsAlways(tool, securityResult) == TRUE
HandlerChecksBlockedOnly(tool, securityResult) == ~securityResult.blocked

\* what the handler does with the result of executeSecurely: every handler
\* returns an error response when the result is blocked; the send-command handler
\* also when it is not a success; otherwise the handler goes on to the external
\* operation
HandlerProceeds(tool, securityResult) ==
    /\ ~securityResult.blocked
    /\ (tool = SEND_COMMAND_TO_ELECTRON => securityResult.success)

\* SendCommandToElectronSchema.parse / the other tool schemas: the arguments of a
\* command must be absent or an object
SchemaAccepts(input) == input.wellFormed /\ input.args.kind # "string"

\* request.meta
NoMeta == [sourceIP |-> <<>>, userAgent |-> <<>>]
CurlMeta == [sourceIP |-> <<"1","0",".","0",".","0",".","7">>, userAgent |-> <<"c","u","r","l">>]

\* the requests of the model: every tool but send-command with well-formed and
\* with malformed arguments, and send-command with commands of every kind
SendInputs ==
    { [command |-> <<"g","e","t","_","t","i","t","l","e">>, args |-> NoArgs, meta |-> NoMeta],
      [command |-> CmdEval, args |-> NoArgs, meta |-> NoMeta],
      [command |-> CmdEval, args |-> ObjectArgs(<<"r","e","q","u","i","r","e","(","\"","f","s","\"",")">>), meta |-> CurlMeta],
      [command |-> CmdEval, args |-> StringArgs(<<"d","o","c","u","m","e","n","t",".","t","i","t","l","e">>), meta |-> NoMeta],
      [command |-> <<"j","a","v","a","s","c","r","i","p","t",":","a","l","e","r","t","(","1",")">>, args |-> NoArgs, meta |-> CurlMeta],
      [command |-> <<"e","v","a","l",":","p","r","o","c","e","s","s",".","e","x","i","t","(","1",")">>, args |-> NoArgs, meta |-> NoMeta],
      [command |-> CmdFetch, args |-> NoArgs, meta |-> NoMeta],
      [command |-> CmdEmpty, args |-> NoArgs, meta |-> NoMeta] }
ToolInputs ==
    { [tool |-> t, wellFormed |-> w, command |-> <<>>, args |-> NoArgs, meta |-> NoMeta] :
        t \in ToolName \ {SEND_COMMAND_TO_ELECTRON}, w \in BOOLEAN }
    \cup { [tool |-> SEND_COMMAND_TO_ELECTRON, wellFormed |-> TRUE, command |-> i.command,
             args |-> i.args, meta |-> i.meta] : i \in SendInputs }

MaxRequests == 2
Requests == 1..MaxRequests

NoVerdict == [isValid |-> FALSE, riskLevel |-> "none", errors |-> 0]
IdleRequest ==
    [pc |-> "idle", tool |-> "none", wellFormed |-> TRUE, command |-> <<>>, args |-> NoArgs,
     meta |-> NoMeta, secured |-> FALSE, verdict |-> NoVerdict, code |-> <<>>,
     result |-> NoResult, error |-> <<>>, returned |-> FALSE,
     sandboxInvoked |-> FALSE, sandboxFailed |-> FALSE,
     logCalls |-> 0, line |-> 0, externalInvoked |-> FALSE, response |-> "none"]

\* the values of NODE_ENV and the sizes of the key file the logger finds
NodeEnvs == {"production", "development"}
KeyFileBytes == {KeyBytes, KeyBytes \div 2}

VARIABLES
    env,            \* process.env: SECURITY_LEVEL and NODE_ENV
    securityLevel,  \* InputValidator.securityLevel, the active level
    lastIndex,      \* lastIndex of the shared XSS_PATTERNS and INJECTION_PATTERNS
    sandboxCache,   \* the decision cache of shouldSandbox
    encryptionKey,  \* SecurityLogger.encryptionKey
    requests,       \* the tool calls: position of the handler and what it did
    auditLog,       \* the lines of the security log file
    logged,         \* the entries passed to logSecurityEvent, with the line each got
    oplog,          \* the messages on the operational log
    calls,          \* number of direct calls of the classifier interface
    prev, last,     \* the two latest direct calls and what they returned
    probe,          \* a function of the code under examination: its input and its output
    runs,           \* the runs of CodeSandbox.executeCode: position, files and child process
    now,            \* the clock: what new Date() returns
    dayFiles,       \* the content of the day-files of the log directory
    logEvents,      \* the calls of logSecurityEvent in flight: position and what they hold
    keyStore        \* the key file on disk and the constructor of SecurityLogger reading or creating it

vars == <<env, securityLevel, lastIndex, sandboxCache, encryptionKey, requests,
          auditLog, logged, oplog, calls, prev, last, probe, runs,
          now, dayFiles, logEvents, keyStore>>

\* the clock, the log directory and the logSecurityEvent calls in flight
logVars == <<now, dayFiles, logEvents, keyStore>>
\* what the tool handlers and the classifier interface leave alone
auxVars == <<probe, runs, logVars>>
\* the variables of the server
serverVars == <<env, securityLevel, lastIndex, sandboxCache, encryptionKey, requests,
                auditLog, logged, oplog, calls, prev, last>>
NoProbe == [fn |-> "none", input |-> <<>>, applied |-> FALSE, output |-> <<>>]
MaxRuns == 2
RunIds == 1..MaxRuns
IdleRun ==
    [pc |-> "idle", code |-> <<>>, timeout |-> 0, dirExists |-> FALSE, scriptExists |-> FALSE,
     childAlive |-> FALSE, booted |-> FALSE, elapsed |-> 0, vmElapsed |-> 0, killed |-> FALSE,
     failed |-> FALSE, success |-> FALSE, timer |-> "none",
     error |-> [message |-> <<>>, details |-> <<>>]]
RunsIdle == runs = [r \in RunIds |-> IdleRun]

MaxLogEvents == 2
LogEventIds == 1..MaxLogEvents
\* the clock counts in ticks since the epoch, TicksPerDay of them to a UTC day
TicksPerDay == 2
MaxTicks == 3
Days == 0..(MaxTicks \div TicksPerDay)
\* date.toISOString().split('T')[0]: the UTC day of an instant
UtcDay(date) == date \div TicksPerDay
\* getLogFilePath(date): the day-file security-<day>.log, named by its day
getLogFilePath(date) == UtcDay(date)
NoEntry == AuditEntry(0, 0, <<>>, NoResult, <<>>, 0, NoMeta)
IdleLogEvent ==
    [pc |-> "idle", entry |-> NoEntry, mkdirOk |-> TRUE, date |-> 0, logFile |-> 0,
     logLine |-> <<>>, pending |-> <<>>, appends |-> 0, failed |-> FALSE,
     settled |-> "pending"]
\* permission bits: what the owner, the group and the others may do
Access == {"r", "w", "x"}
Mode(owner, group, other) == [owner |-> owner, group |-> group, other |-> other]
NoFile == [exists |-> FALSE, mode |-> Mode({}, {}, {}), bytes |-> 0]
\* a process whose logger is constructed, over a log directory without a key file
KeyStoreReady ==
    [pc |-> "ready", starts |-> 0, umask |-> Mode({}, {"w"}, {"w"}), file |-> NoFile,
     key |-> [bytes |-> KeyBytes], fresh |-> FALSE]
LogIdle ==
    /\ keyStore = KeyStoreReady
    /\ now = 0
    /\ dayFiles = [d \in Days |-> <<>>]
    /\ logEvents = [w \in LogEventIds |-> IdleLogEvent]

AuxIdle ==
    /\ probe = NoProbe
    /\ RunsIdle
    /\ LogIdle

NoCall == [op |-> "none", input |-> [command |-> <<>>, args |-> NoArgs], level |-> "none",
           li |-> InitialLastIndex, cache |-> EmptyCache,
           verdict |-> [isValid |-> FALSE, errors |-> <<>>, riskLevel |-> "none",
                        sanitizedInput |-> [present |-> FALSE, command |-> <<>>, args |-> NoArgs]],
           result |-> FALSE, hit |-> FALSE]

\* the state after the modules are loaded: the active level is
\* getDefaultSecurityLevel(), the logger has read or created its key
Start(levelValues, nodeEnvs, keySizes) ==
    /\ env \in [SECURITY_LEVEL : levelValues, NODE_ENV : nodeEnvs]
    /\ securityLevel = getDefaultSecurityLevel(env.SECURITY_LEVEL)
    /\ lastIndex = InitialLastIndex
    /\ sandboxCache = EmptyCache
    /\ encryptionKey \in [bytes : keySizes]
    /\ requests = [r \in Requests |-> IdleRequest]
    /\ auditLog = <<>>
    /\ logged = <<>>
    /\ oplog = <<>>
    /\ calls = 0
    /\ prev = NoCall
    /\ last = NoCall

\* a server in production, started with no level or with the development level
\* configured, whose logger finds a key file of 32 bytes or a shorter one
Init == Start({EnvUnset, <<"D","E","V","E","L","O","P","M","E","N","T">>}, {"production"}, KeyFileBytes) /\ AuxIdle

\* logger.error('Tool execution failed') in the catch clause of handleToolCall
ToolFailed(log, rid) ==
    Append(log, [level |-> "error", msg |-> "Tool execution failed", sessionId |-> rid])

\* the request after the synchronous part of executeSecurely returned x
Secured(base, x) ==
    CASE x.branch = "blocked" ->
             [base EXCEPT !.secured = TRUE, !.verdict = x.verdict, !.code = x.code,
                          !.pc = "logging", !.result = BlockedResult(x.verdict.riskLevel),
                          !.error = <<"C","o","m","m","a","n","d"," ","b","l","o","c","k","e","d">>]
      [] x.branch = "sandbox" ->
             [base EXCEPT !.secured = TRUE, !.verdict = x.verdict, !.code = x.code,
                          !.pc = "sandbox", !.sandboxInvoked = TRUE]
      [] x.branch = "allowed" ->
             [base EXCEPT !.secured = TRUE, !.verdict = x.verdict, !.code = x.code,
                          !.pc = "logging", !.result = AllowedResult(x.verdict.riskLevel)]
CallExecuteSecurely(rid, base, x) ==
    /\ lastIndex' = x.li
    /\ sandboxCache' = x.cache
    /\ oplog' = oplog
    /\ requests' = [requests EXCEPT ![rid] = Secured(base, x)]

\* handleToolCall(request) up to its first suspension point.  A handler that
\* parses first and is given malformed arguments answers with an error; the
\* read-logs handler goes straight to readElectronLogs; every other handler calls
\* executeSecurely, which classifies the command and either has a terminal
\* verdict to log or starts the sandbox.
ToolCall(rid, input) ==
    /\ requests[rid].pc = "idle"
    /\ rid > 1 => requests[rid - 1].pc # "idle"
    /\ LET command == SecuredCommand(input.tool, input.command)
           base == [IdleRequest EXCEPT !.tool = input.tool, !.wellFormed = SchemaAccepts(input),
                                       !.command = command, !.args = input.args,
                                       !.meta = input.meta]
       IN  IF ParsesFirst(input.tool) /\ ~SchemaAccepts(input)
           THEN /\ requests' = [requests EXCEPT ![rid] = [base EXCEPT !.pc = "done", !.response = "error"]]
                /\ oplog' = ToolFailed(oplog, rid)
                /\ UNCHANGED <<lastIndex, sandboxCache>>
           ELSE IF ~CallsExecuteSecurely(input.tool)
           THEN /\ requests' = [requests EXCEPT ![rid] =
                                   [base EXCEPT !.pc = "external", !.externalInvoked = TRUE]]
                /\ UNCHANGED <<oplog, lastIndex, sandboxCache>>
           ELSE CallExecuteSecurely(rid, base,
                    executeSecurelyClassify(command, input.args, securityLevel, lastIndex, sandboxCache))
    /\ UNCHANGED <<env, securityLevel, encryptionKey, auditLog, logged, calls, prev, last>>
    /\ UNCHANGED auxVars

\* the request after executeCode returned the SandboxResult r: executeSecurely
\* turns a failure into a blocked or a failed result
Sandboxed(req, r, asBlocked) ==
    IF r.success
    THEN [req EXCEPT !.pc = "logging", !.result = AllowedResult(req.verdict.riskLevel)]
    ELSE [req EXCEPT !.pc = "logging", !.sandboxFailed = TRUE,
                     !.error = <<"S","a","n","d","b","o","x"," ","e","x","e","c","u","t","i","o","n"," ","f","a","i","l","e","d">>,
                     !.result = IF asBlocked THEN BlockedResult(req.verdict.riskLevel)
                                ELSE SandboxFailedResult(req.verdict.riskLevel)]

\* executeCode(code): the rejection of the pre-check, or the outcome of the run
executeCode(code, outcome) ==
    IF validateCode(code).isValid THEN SandboxResultOf(outcome) ELSE SandboxRejected

\* the sandbox trial of a request ends
SandboxFinish(rid, outcome, asBlocked) ==
    /\ requests[rid].pc = "sandbox"
    /\ requests' = [requests EXCEPT ![rid] =
                       Sandboxed(@, executeCode(requests[rid].code, outcome), asBlocked)]
    /\ UNCHANGED <<env, securityLevel, lastIndex, sandboxCache, encryptionKey,
                   auditLog, logged, oplog, calls, prev, last>>
    /\ UNCHANGED auxVars

\* executeSecurely logs its terminal verdict and returns it; the handler then
\* answers with an error or goes on to the external operation
LogWrite(rid, fs) ==
    /\ requests[rid].pc = "logging"
    /\ LET req == requests[rid]
           entry == AuditEntry(rid, Len(logged) + 1, req.command, req.result, req.error,
                               IF req.sandboxInvoked THEN 1 ELSE 0, req.meta)
           ivs == [f \in sensitiveFields |-> <<Len(auditLog) + 1, f>>]
           w == logSecurityEvent(entry, encryptionKey, ivs, fs, auditLog, oplog)
           line == IF Len(w.file) > Len(auditLog) THEN Len(w.file) ELSE 0
           proceeds == HandlerProceeds(req.tool, req.result)
           returned == [req EXCEPT !.returned = TRUE, !.logCalls = @ + 1, !.line = line]
       IN  /\ auditLog' = w.file
           /\ logged' = Append(logged, [entry |-> entry, line |-> line])
           /\ IF proceeds /\ req.wellFormed
              THEN /\ requests' = [requests EXCEPT ![rid] =
                                      [returned EXCEPT !.pc = "external", !.externalInvoked = TRUE]]
                   /\ oplog' = w.console
              ELSE /\ requests' = [requests EXCEPT ![rid] =
                                      [returned EXCEPT !.pc = "done", !.response = "error"]]
                   /\ oplog' = IF proceeds THEN ToolFailed(w.console, rid) ELSE w.console
    /\ UNCHANGED <<env, securityLevel, lastIndex, sandboxCache, encryptionKey, calls, prev, last>>
    /\ UNCHANGED auxVars

\* the external operation of a request returns or throws
ExternalDone(rid, ok) ==
    /\ requests[rid].pc = "external"
    /\ requests' = [requests EXCEPT ![rid] =
                       [@ EXCEPT !.pc = "done", !.response = IF ok THEN "ok" ELSE "error"]]
    /\ oplog' = IF ok THEN oplog ELSE ToolFailed(oplog, rid)
    /\ UNCHANGED <<env, securityLevel, lastIndex, sandboxCache, encryptionKey,
                   auditLog, logged, calls, prev, last>>
    /\ UNCHANGED auxVars

Next ==
    \/ \E rid \in Requests, input \in ToolInputs : ToolCall(rid, input)
    \/ \E rid \in Requests, outcome \in SandboxOutcomes, asBlocked \in BOOLEAN :
           SandboxFinish(rid, outcome, asBlocked)
    \/ \E rid \in Requests, fs \in FsOutcomes : LogWrite(rid, fs)
    \/ \E rid \in Requests, ok \in BOOLEAN : ExternalDone(rid, ok)

Spec == Init /\ [][Next]_vars

----------------------------------------------------------------------------
(* Direct calls of the classifier and of the orchestrator's accessors, as  *)
(* the unit tests make them.                                               *)

MaxCalls == 3

\* the inputs of validateCommand and the commands of shouldSandboxCommand
ClassifierInputs ==
    { [command |-> c, args |-> NoArgs] :
        c \in CodeCommands \cup { <<"g","e","t","_","t","i","t","l","e">>, <<"e","v","a","l",":","p","r","o","c","e","s","s",".","e","x","i","t","(","1",")">> } }
    \cup { [command |-> CmdEval, args |-> StringArgs(t)] :
             t \in { <<"p","r","o","c","e","s","s",".","e","n","v">>, <<"r","e","q","u","i","r","e","(","\"","f","s","\"",")">> } \cup DomQueryCodes }
    \cup { [command |-> CmdEval, args |-> ObjectArgs(<<"r","e","q","u","i","r","e","(","\"","f","s","\"",")">>)] }
SandboxCommands == SimpleCommands \cup RiskyCommands \cup { <<"j","a","v","a","s","c","r","i","p","t",":","a","l","e","r","t","(","1",")">> }

\* the classifier in any deployment, with any configured level
InitClassifier == Start(EnvLevelValues, NodeEnvs, {KeyBytes}) /\ AuxIdle

\* InputValidator.validateCommand(input)
Validated(input, v) ==
    /\ lastIndex' = v.li
    /\ last' = [NoCall EXCEPT !.op = "validateCommand", !.input = input,
                              !.level = securityLevel, !.li = lastIndex,
                              !.cache = sandboxCache,
                              !.verdict = [isValid |-> v.isValid, errors |-> v.errors,
                                           riskLevel |-> v.riskLevel,
                                           sanitizedInput |-> v.sanitizedInput]]
ValidateCommand(input) ==
    /\ calls < MaxCalls
    /\ Validated(input, validateCommand(input, securityLevel, lastIndex))
    /\ prev' = last
    /\ calls' = calls + 1
    /\ UNCHANGED <<env, securityLevel, sandboxCache, encryptionKey, requests, auditLog, logged, oplog>>
    /\ UNCHANGED auxVars

\* securityManager.shouldSandboxCommand(command)
Answered(command, s) ==
    /\ lastIndex' = s.li
    /\ sandboxCache' = s.cache
    /\ last' = [NoCall EXCEPT !.op = "shouldSandboxCommand",
                              !.input = [command |-> command, args |-> NoArgs],
                              !.level = securityLevel, !.li = lastIndex,
                              !.cache = sandboxCache,
                              !.result = s.result, !.hit = s.hit]
ShouldSandbox(command) ==
    /\ calls < MaxCalls
    /\ Answered(command, shouldSandboxCommand(command, securityLevel, lastIndex, sandboxCache))
    /\ prev' = last
    /\ calls' = calls + 1
    /\ UNCHANGED <<env, securityLevel, encryptionKey, requests, auditLog, logged, oplog>>
    /\ UNCHANGED auxVars

\* setSecurityLevel(level): the level is stored, whatever it is
SetSecurityLevel(level) ==
    /\ calls < MaxCalls
    /\ securityLevel' = setSecurityLevel(level)
    /\ last' = [NoCall EXCEPT !.op = "setSecurityLevel", !.level = level]
    /\ prev' = last
    /\ calls' = calls + 1
    /\ UNCHANGED <<env, lastIndex, sandboxCache, encryptionKey, requests, auditLog, logged, oplog>>
    /\ UNCHANGED auxVars

NextClassifier ==
    \/ \E input \in ClassifierInputs : ValidateCommand(input)
    \/ \E command \in SandboxCommands : ShouldSandbox(command)
    \/ \E level \in SecurityLevel : SetSecurityLevel(level)

SpecClassifier == InitClassifier /\ [][NextClassifier]_vars

----------------------------------------------------------------------------
(* The stored form of an encrypted field and its decryption                *)
(* (SecurityLogger.encryptString / decryptString).  AES-256-CBC is kept as  *)
(* what it is, a block cipher in CBC mode with PKCS#7 padding, over a small *)
(* alphabet: a byte is a number below ByteValues, a block holds BlockSize   *)
(* bytes, and the exclusive-or of two bytes is their sum modulo ByteValues  *)
(* (undone by the difference).  A hex string is the sequence of its bytes;  *)
(* the separator ':' is the symbol Colon.                                   *)

ByteValues == 4
BlockSize == 2
Bytes == 0..(ByteValues - 1)
Colon == ByteValues
Blocks == [1..BlockSize -> Bytes]

\* the block cipher under key material k, and its inverse
BlockEncrypt(k, b) ==
    << (b[1] + k) % ByteValues, (b[2] + b[1] + 2 * k + 1) % ByteValues >>
BlockDecrypt(k, c) ==
    << (c[1] - k) % ByteValues,
       (c[2] - ((c[1] - k) % ByteValues) - 2 * k - 1) % ByteValues >>
Mix(a, b) == [i \in 1..BlockSize |-> (a[i] + b[i]) % ByteValues]
Unmix(a, b) == [i \in 1..BlockSize |-> (a[i] - b[i]) % ByteValues]

\* PKCS#7: n bytes of value n, 1 <= n <= BlockSize
PadLength(text) == BlockSize - (Len(text) % BlockSize)
Pad(text) == text \o [i \in 1..PadLength(text) |-> PadLength(text)]
PaddingValid(padded) ==
    /\ Len(padded) > 0
    /\ padded[Len(padded)] \in 1..BlockSize
    /\ \A i \in (Len(padded) - padded[Len(padded)] + 1)..Len(padded) :
           padded[i] = padded[Len(padded)]
Unpad(padded) == SubSeq(padded, 1, Len(padded) - padded[Len(padded)])

BlockAt(s, n) == SubSeq(s, (n - 1) * BlockSize + 1, n * BlockSize)
\* cipher.update + cipher.final: block n of the cipher text, chained to block n-1
RECURSIVE CbcEncryptFrom(_, _, _, _)
CbcEncryptBlock(k, padded, n, block) == block \o CbcEncryptFrom(k, padded, block, n + 1)
CbcEncryptFrom(k, padded, previous, n) ==
    IF n * BlockSize > Len(padded) THEN <<>>
    ELSE CbcEncryptBlock(k, padded, n, BlockEncrypt(k, Mix(BlockAt(padded, n), previous)))
\* decipher.update: block n of the plain text
RECURSIVE CbcDecryptFrom(_, _, _, _)
CbcDecryptFrom(k, cipherText, iv, n) ==
    IF n * BlockSize > Len(cipherText) THEN <<>>
    ELSE Unmix(BlockDecrypt(k, BlockAt(cipherText, n)),
               IF n = 1 THEN iv ELSE BlockAt(cipherText, n - 1))
         \o CbcDecryptFrom(k, cipherText, iv, n + 1)

\* createHash('sha256').update(text).digest('hex'): a hex string, so without ':'
Digest(text) == << Len(text) % ByteValues, (Len(text) + 1) % ByteValues >>

\* the string encryptString returns for the encrypted field e
StoredString(e, key) ==
    IF e.form = "aes-256-cbc"
    THEN e.iv \o <<Colon>> \o CbcEncryptFrom(key.material, Pad(e.text), e.iv, 1)
    ELSE Digest(e.text)

\* encryptedText.split(':')
RECURSIVE Split(_, _, _)
Split(s, i, part) ==
    IF i > Len(s) THEN <<part>>
    ELSE IF s[i] = Colon THEN <<part>> \o Split(s, i + 1, <<>>)
    ELSE Split(s, i + 1, Append(part, s[i]))

\* what decryptString returns: the text, or the placeholder '[ENCRYPTED]'
Placeholder == [placeholder |-> TRUE, text |-> <<>>]
Decrypted(text) == [placeholder |-> FALSE, text |-> text]

\* decipher.final: throws on a cipher text that is not whole blocks or whose
\* padding is wrong
Final(padded) == IF PaddingValid(padded) THEN Decrypted(Unpad(padded)) ELSE Placeholder
Decipher(parts, key) ==
    IF \/ key.bytes # KeyBytes
       \/ Len(parts[1]) # BlockSize
       \/ Len(parts[2]) = 0
       \/ Len(parts[2]) % BlockSize # 0
    THEN Placeholder
    ELSE Final(CbcDecryptFrom(key.material, parts[2], parts[1], 1))
SplitParts(parts, key) == IF Len(parts) # 2 THEN Placeholder ELSE Decipher(parts, key)
decryptString(encryptedText, key) == SplitParts(Split(encryptedText, 1, <<>>), key)

\* the damage done to a stored string: none, one symbol replaced by another, one
\* symbol lost
MaxTextLength == 3
CryptTexts == UNION { [1..n -> Bytes] : n \in 1..MaxTextLength }
CryptKeys == [bytes : KeyFileBytes, material : {1}]
CryptIvs == { <<0, 0>>, <<1, 3>> }
NoDamage == [kind |-> "none", at |-> 0, by |-> 0]
Damages(stored) ==
    {NoDamage}
    \cup { d \in [kind : {"replace"}, at : DOMAIN stored, by : Bytes \cup {Colon}] :
             stored[d.at] # d.by }
    \cup { [kind |-> "lose", at |-> i, by |-> 0] : i \in DOMAIN stored }
Damaged(stored, d) ==
    CASE d.kind = "none" -> stored
      [] d.kind = "replace" -> [stored EXCEPT ![d.at] = d.by]
      [] d.kind = "lose" -> SubSeq(stored, 1, d.at - 1) \o SubSeq(stored, d.at + 1, Len(stored))

----------------------------------------------------------------------------
(* The metrics of the audit trail (SecurityLogger.getSecurityMetrics).     *)
(* The two limits of the code, 50 characters and 10 commands, are scaled to *)
(* TruncateLength and TopLimit, so that short commands and few of them reach *)
(* both.  A quotient of two numbers is kept as the pair of them.             *)

TruncateLength == 2
TopLimit == 2

Quotient(a, b) == [num |-> a, den |-> b]
Zero == [num |-> 0, den |-> 1]

\* A faulty truncation, against which the property of the metrics is validated:
\* the commands are counted whole.
TruncatedCommandWhole(command) == command

\* e.command.substring(0, 50)
TruncatedCommand(command) == SubSeq(command, 1, Min(TruncateLength, Len(command)))

\* commandCounts.set(truncated, (commandCounts.get(truncated) || 0) + 1): the Map
\* as the sequence of its entries in insertion order
PositionOf(counts, command) ==
    IF \E i \in DOMAIN counts : counts[i].command = command
    THEN CHOOSE i \in DOMAIN counts : counts[i].command = command
    ELSE 0
CountedAt(counts, command, at) ==
    IF at = 0 THEN Append(counts, [command |-> command, count |-> 1])
    ELSE [counts EXCEPT ![at].count = @ + 1]
Counted(counts, command) == CountedAt(counts, command, PositionOf(counts, command))
\* entries.forEach((e) => { if (e.command) ... })
RECURSIVE CommandCounts(_, _, _)
CommandCounts(entries, i, counts) ==
    IF i > Len(entries) THEN counts
    ELSE CommandCounts(entries, i + 1,
                       IF entries[i].command # <<>>
                       THEN Counted(counts, TruncatedCommand(entries[i].command))
                       ELSE counts)

\* .sort((a, b) => b[1] - a[1]): stable, the larger count first
RECURSIVE InsertByCount(_, _, _)
InsertByCount(sorted, item, i) ==
    IF i > Len(sorted) THEN Append(sorted, item)
    ELSE IF sorted[i].count < item.count
    THEN SubSeq(sorted, 1, i - 1) \o <<item>> \o SubSeq(sorted, i, Len(sorted))
    ELSE InsertByCount(sorted, item, i + 1)
RECURSIVE SortByCount(_, _, _)
SortByCount(counts, i, sorted) ==
    IF i > Len(counts) THEN sorted
    ELSE SortByCount(counts, i + 1, InsertByCount(sorted, counts[i], 1))
\* .slice(0, 10)
Slice(s, n) == SubSeq(s, 1, Min(n, Len(s)))

NumberOf(entries, Holds(_)) == Cardinality({ i \in DOMAIN entries : Holds(entries[i]) })
IsBlocked(e) == ~e.success
IsHigh(e) == e.riskLevel = "high"
IsCritical(e) == e.riskLevel = "critical"

getSecurityMetrics(entries) ==
    [totalRequests |-> Len(entries),
     blockedRequests |-> NumberOf(entries, IsBlocked),
     highRiskRequests |-> NumberOf(entries, IsHigh),
     criticalRiskRequests |-> NumberOf(entries, IsCritical),
     topCommands |-> Slice(SortByCount(CommandCounts(entries, 1, <<>>), 1, <<>>), TopLimit),
     errorRate |-> IF Len(entries) > 0
                   THEN Quotient(NumberOf(entries, IsBlocked), Len(entries))
                   ELSE Zero]

\* the entries read from the day-files
MaxEntries == 4
MetricCommands == { <<>>, <<"a">>, <<"a","b">>, <<"a","b","c">>, <<"a","b","d">>, <<"c">> }
MetricEntries ==
    { [command |-> c, success |-> TRUE, riskLevel |-> "low"] : c \in MetricCommands }
    \cup { [command |-> c, success |-> FALSE, riskLevel |-> "critical"] :
             c \in { <<"a","b">>, <<"a","b","c">>, <<"c">> } }
    \cup { [command |-> <<"a">>, success |-> TRUE, riskLevel |-> "high"] }

----------------------------------------------------------------------------
(* The search of the audit trail (SecurityLogger.searchLogs over           *)
(* readLogEntries).  A stored entry is written into the day-file of the    *)
(* instant of its write, which is not earlier than its timestamp.  A line  *)
(* of a day-file holds one entry; the search is given both ends of the     *)
(* range.                                                                  *)

Instants == 0..MaxTicks
SearchActions == { "command", "tool_call" }
SearchRiskLevels == { "low", "high" }
SearchEntry(timestamp, action, riskLevel) ==
    [timestamp |-> timestamp, action |-> action, riskLevel |-> riskLevel]
Stored(entry, written) == [entry |-> entry, written |-> written]

\* fs.readFile(logFile) and the parse of its lines: the entries of the day-file in
\* the order of their writes, none for a file that does not exist
InFile(stored, logFile) == SelectSeq(stored, LAMBDA s : getLogFilePath(s.written) = logFile)
ReadFile(stored, logFile) ==
    [i \in 1..Len(InFile(stored, logFile)) |-> InFile(stored, logFile)[i].entry]

\* currentDate.setDate(currentDate.getDate() + 1): the same time of the next day
NextDate(currentDate) == currentDate + TicksPerDay

\* while (currentDate <= endDate) { read getLogFilePath(currentDate); next day }
RECURSIVE ReadDays(_, _, _, _)
ReadDays(stored, currentDate, endDate, entries) ==
    IF currentDate <= endDate
    THEN ReadDays(stored, NextDate(currentDate), endDate,
                  entries \o ReadFile(stored, getLogFilePath(currentDate)))
    ELSE entries

\* entries.sort((a, b) => new Date(b.timestamp) - new Date(a.timestamp)): stable,
\* the later timestamp first
RECURSIVE InsertByTimestamp(_, _, _)
InsertByTimestamp(sorted, item, i) ==
    IF i > Len(sorted) THEN Append(sorted, item)
    ELSE IF sorted[i].timestamp < item.timestamp
    THEN SubSeq(sorted, 1, i - 1) \o <<item>> \o SubSeq(sorted, i, Len(sorted))
    ELSE InsertByTimestamp(sorted, item, i + 1)
RECURSIVE SortByTimestamp(_, _, _)
SortByTimestamp(entries, i, sorted) ==
    IF i > Len(entries) THEN sorted
    ELSE SortByTimestamp(entries, i + 1, InsertByTimestamp(sorted, entries[i], 1))

readLogEntries(stored, since, until) ==
    SortByTimestamp(ReadDays(stored, since, until, <<>>), 1, <<>>)

\* the criteria: an action or a risk level that is not given is the empty string,
\* a limit that is not given is NoLimit
Limit(n) == [given |-> TRUE, n |-> n]
NoLimit == [given |-> FALSE, n |-> 0]
\* if (criteria.action) filtered = filtered.filter((e) => e.action === criteria.action)
FilteredByAction(entries, action) ==
    IF action # "" THEN SelectSeq(entries, LAMBDA e : e.action = action) ELSE entries
\* if (criteria.riskLevel) filtered = filtered.filter(...)
FilteredByRiskLevel(entries, riskLevel) ==
    IF riskLevel # "" THEN SelectSeq(entries, LAMBDA e : e.riskLevel = riskLevel) ELSE entries
\* if (criteria.limit) filtered = filtered.slice(0, criteria.limit)
Limited(entries, limit) ==
    IF limit.given /\ limit.n # 0 THEN Slice(entries, limit.n) ELSE entries

searchLogs(stored, criteria) ==
    Limited(FilteredByRiskLevel(FilteredByAction(readLogEntries(stored, criteria.since,
                                                                criteria.until),
                                                 criteria.action),
                                criteria.riskLevel),
            criteria.limit)

\* the trails searched: up to MaxStored entries with timestamps of their own, in
\* the order of their writes; a limit that is given is positive
MaxStored == 2
MaxLimit == 2
StoredEntries ==
    { Stored(SearchEntry(t, x[1], x[2]), t) :
        t \in Instants, x \in { <<"command", "high">>, <<"command", "low">>,
                                 <<"tool_call", "high">> } }
    \cup { Stored(SearchEntry(t, "command", "high"), t + 1) : t \in Instants \ {MaxTicks} }
InWriteOrder(stored) ==
    \A i, j \in DOMAIN stored :
        i < j => /\ stored[i].written <= stored[j].written
                 /\ stored[i].entry.timestamp < stored[j].entry.timestamp
Trails == { s \in UNION { [1..k -> StoredEntries] : k \in 0..MaxStored } : InWriteOrder(s) }
Criteria ==
    { c \in [since : Instants, until : Instants, action : {"", "command"},
             riskLevel : {"", "high"},
             limit : {NoLimit} \cup { Limit(n) : n \in 1..MaxLimit }] :
        c.since <= c.until }
----------------------------------------------------------------------------
(* The functions of the classifier and of the logger on their own: the     *)
(* input is chosen at the start and the function is applied to it once.    *)

\* the risk factors the two content checks push
KeywordFactors == { <<"d","a","n","g","e","r","o","u","s","_","k","e","y","w","o","r","d","_","e","v","a","l">>, <<"e","v","a","l","_","d","a","n","g","e","r","o","u","s","_","k","e","y","w","o","r","d","_","p","r","o","c","e","s","s">> }
InjectionFactors == { <<"i","n","j","e","c","t","i","o","n","_","p","a","t","t","e","r","n">> }
XssFactors == { <<"x","s","s","_","p","a","t","t","e","r","n">> }
ObfuscationFactors == { <<"o","b","f","u","s","c","a","t","i","o","n">> }
OtherFactors == { <<"e","x","c","e","s","s","i","v","e","_","l","e","n","g","t","h">>, <<"e","v","a","l","_","f","u","n","c","t","i","o","n","_","c","a","l","l">>, <<"e","v","a","l","_","a","s","s","i","g","n","m","e","n","t">> }
RiskFactors ==
    KeywordFactors \cup InjectionFactors \cup XssFactors \cup ObfuscationFactors \cup OtherFactors
MaxFactors == 4
SeqsUpTo(S, n) == UNION { [1..k -> S] : k \in 0..n }

Probe(fn, input) == [fn |-> fn, input |-> input, applied |-> FALSE, output |-> <<>>]
Applied(output) == [probe EXCEPT !.applied = TRUE, !.output = output]

RiskProbes == { Probe("calculateRiskLevel", f) : f \in SeqsUpTo(RiskFactors, MaxFactors) }

SanitizeProbes == { Probe("sanitizeCommand", c) : c \in CommandTexts }

\* a field is encrypted under a key and an iv, its stored string is damaged or
\* not, and the stored string is decrypted under the same key
CryptProbe(x, k, iv, stored, d) ==
    Probe("decryptString",
          [text |-> x, key |-> k, iv |-> iv, damage |-> d, stored |-> Damaged(stored, d)])
CryptProbesOf(x, k, iv, stored) == { CryptProbe(x, k, iv, stored, d) : d \in Damages(stored) }
CryptProbes ==
    UNION { CryptProbesOf(c[1], c[2], c[3], StoredString(encryptString(c[1], c[2], c[3]), c[2])) :
              c \in CryptTexts \X CryptKeys \X CryptIvs }

MetricProbes == { Probe("getSecurityMetrics", e) : e \in SeqsUpTo(MetricEntries, MaxEntries) }

EvalProbes == { Probe("validateCommand", StringArgs(code)) : code \in EvalCodes }

SearchProbes ==
    { Probe("searchLogs", [stored |-> s, criteria |-> c]) : s \in Trails, c \in Criteria }

InitFunctions ==
    /\ Start({EnvUnset}, {"production"}, {KeyBytes})
    /\ RunsIdle
    /\ LogIdle
    /\ \/ probe \in RiskProbes
       \/ probe \in SanitizeProbes
       \/ probe \in CryptProbes
       \/ probe \in MetricProbes
       \/ probe \in EvalProbes
       \/ probe \in SearchProbes

\* InputValidator.calculateRiskLevel(riskFactors)
CalculateRiskLevel ==
    /\ probe.fn = "calculateRiskLevel"
    /\ ~probe.applied
    /\ probe' = Applied(calculateRiskLevel(probe.input))
    /\ UNCHANGED <<serverVars, runs, logVars>>

\* InputValidator.sanitizeCommand(command)
SanitizeCommand ==
    /\ probe.fn = "sanitizeCommand"
    /\ ~probe.applied
    /\ probe' = Applied(sanitizeCommand(probe.input))
    /\ UNCHANGED <<serverVars, runs, logVars>>

\* SecurityLogger.decryptString(encryptedText)
DecryptString ==
    /\ probe.fn = "decryptString"
    /\ ~probe.applied
    /\ probe' = Applied(decryptString(probe.input.stored, probe.input.key))
    /\ UNCHANGED <<serverVars, runs, logVars>>

\* SecurityLogger.getSecurityMetrics(since), from the entries readLogEntries returned
GetSecurityMetrics ==
    /\ probe.fn = "getSecurityMetrics"
    /\ ~probe.applied
    /\ probe' = Applied(getSecurityMetrics(probe.input))
    /\ UNCHANGED <<serverVars, runs, logVars>>

\* InputValidator.validateCommand({command: 'eval', args}) under each of the
\* security levels
ValidateEvalAtLevels ==
    /\ probe.fn = "validateCommand"
    /\ ~probe.applied
    /\ probe' = Applied([l \in SecurityLevel |->
                            validateCommand([command |-> CmdEval, args |-> probe.input], l,
                                            InitialLastIndex)])
    /\ UNCHANGED <<serverVars, runs, logVars>>

\* SecurityLogger.searchLogs(criteria) over the day-files of the trail
SearchLogs ==
    /\ probe.fn = "searchLogs"
    /\ ~probe.applied
    /\ probe' = Applied(searchLogs(probe.input.stored, probe.input.criteria))
    /\ UNCHANGED <<serverVars, runs, logVars>>

NextFunctions ==
    \/ CalculateRiskLevel
    \/ SanitizeCommand
    \/ DecryptString
    \/ GetSecurityMetrics
    \/ ValidateEvalAtLevels
    \/ SearchLogs

SpecFunctions == InitFunctions /\ [][NextFunctions]_vars

----------------------------------------------------------------------------
(* One run of CodeSandbox.executeCode, step by step (src/security/sandbox.ts):*)
(* pre-check, temporary directory, wrapper script, child process with its  *)
(* two timeouts, cleanup, result.  Time passes in ticks.                    *)

\* timeout: options.timeout of the constructor, in ticks; the wrapper script runs
\* the payload with vm.runInContext(..., {timeout: 5000}), VmTimeout ticks
VmTimeout == 2
SandboxTimeouts == {1, 2, 3}

\* what the payload does once the child runs it
Behaviour(code) ==
    CASE code = CodeValue -> "value"
      [] code = CodeThrows -> "throws"
      [] OTHER -> "loops"

\* The faulty close handler against which the timeout is validated: it resolves
\* whatever the exit code and the report are.
CloseResolvesAlways(exitCode, report) == TRUE

\* child.on('close'): the promise resolves when the exit code is 0 and the report
\* on stdout says success, and rejects otherwise
CloseResolves(exitCode, report) == exitCode = 0 /\ report.success
NoReport == [success |-> FALSE, error |-> <<>>]
\* the exit code of a child that a signal ended: null
ExitCodeNull == -1
\* error.message of what the payload throws, and of what vm.runInContext throws
\* when its timeout expires
ThrownMessage == <<"C","a","n","n","o","t"," ","r","e","a","d"," ","p","r","o","p","e","r","t","i","e","s"," ","o","f"," ","n","u","l","l"," ","(","r","e","a","d","i","n","g"," ","'","x","'",")">>
VmTimeoutMessage == <<"S","c","r","i","p","t"," ","e","x","e","c","u","t","i","o","n"," ","t","i","m","e","d"," ","o","u","t"," ","a","f","t","e","r"," ","5","0","0","0","m","s">>
\* the message of a rejected file system call and of a failed spawn
FsErrorMessage == <<"E","A","C","C","E","S",":"," ","p","e","r","m","i","s","s","i","o","n"," ","d","e","n","i","e","d">>
SpawnErrorMessage == <<"s","p","a","w","n"," ","n","o","d","e"," ","E","N","O","E","N","T">>
\* SandboxResult.error: a message, and for `Code validation failed:
\* ${validation.errors.join(', ')}` the errors that follow it
Message(text) == [message |-> text, details |-> <<>>]
ValidationMessage(errors) == [message |-> <<"C","o","d","e"," ","v","a","l","i","d","a","t","i","o","n"," ","f","a","i","l","e","d",":"," ">>, details |-> errors]
\* the message of the error child.on('close') rejects with
CloseMessage(exitCode, report) ==
    IF exitCode = 0 THEN Message(report.error)
    ELSE Message(<<"P","r","o","c","e","s","s"," ","e","x","i","t","e","d"," ","w","i","t","h"," ","c","o","d","e"," ">>
                 \o (IF exitCode = ExitCodeNull THEN <<"n","u","l","l">> ELSE <<"1">>) \o <<":"," ">>)

\* the timer of spawn(..., {timeout}) is due; the timer of the vm is due
SpawnTimerDue(run) == run.childAlive /\ run.elapsed >= run.timeout
VmTimerDue(run) ==
    run.childAlive /\ run.booted /\ Behaviour(run.code) = "loops" /\ run.vmElapsed >= VmTimeout

Closed(run, exitCode, report) ==
    [run EXCEPT !.pc = "cleanup", !.childAlive = FALSE,
                !.failed = ~CloseResolves(exitCode, report),
                !.error = IF CloseResolves(exitCode, report) THEN Message(<<>>)
                          ELSE CloseMessage(exitCode, report)]

RunStep(r, run) ==
    /\ runs' = [runs EXCEPT ![r] = run]
    /\ UNCHANGED <<serverVars, probe, logVars>>

\* executeCode(code) starts: the pre-check, then fs.mkdir(tempDir) is issued
RunStart(r, code, timeout) ==
    /\ runs[r].pc = "idle"
    /\ r > 1 => runs[r - 1].pc # "idle"
    /\ RunStep(r, IF validateCode(code).isValid
                  THEN [IdleRun EXCEPT !.pc = "mkdir", !.code = code, !.timeout = timeout]
                  ELSE [IdleRun EXCEPT !.pc = "returned", !.code = code, !.timeout = timeout,
                                       !.error = ValidationMessage(validateCode(code).errors)])

\* fs.mkdir settles; a failure is thrown before the try block and caught by executeCode
MkdirDone(r, ok) ==
    /\ runs[r].pc = "mkdir"
    /\ RunStep(r, IF ok
                  THEN [runs[r] EXCEPT !.pc = "write", !.dirExists = TRUE]
                  ELSE [runs[r] EXCEPT !.pc = "returned", !.failed = TRUE, !.error = Message(FsErrorMessage)])

\* fs.writeFile(scriptPath) settles; a failed write may or may not have created the file
WriteFileDone(r, ok, created) ==
    /\ runs[r].pc = "write"
    /\ ok => created
    /\ RunStep(r, IF ok
                  THEN [runs[r] EXCEPT !.pc = "spawn", !.scriptExists = TRUE]
                  ELSE [runs[r] EXCEPT !.pc = "cleanup", !.scriptExists = created, !.failed = TRUE,
                                       !.error = Message(FsErrorMessage)])

\* spawn('node', [scriptPath], {timeout}): the child starts, or 'error' is emitted
Spawn(r, ok) ==
    /\ runs[r].pc = "spawn"
    /\ RunStep(r, IF ok
                  THEN [runs[r] EXCEPT !.pc = "running", !.childAlive = TRUE]
                  ELSE [runs[r] EXCEPT !.pc = "cleanup", !.failed = TRUE, !.error = Message(SpawnErrorMessage)])

\* the child has started node and enters vm.runInContext
ChildBoots(r) ==
    /\ runs[r].pc = "running"
    /\ runs[r].childAlive /\ ~runs[r].booted
    /\ ~SpawnTimerDue(runs[r])
    /\ RunStep(r, [runs[r] EXCEPT !.booted = TRUE])

\* the payload returns or throws: the wrapper prints its report and the child exits with 0
ChildFinishes(r) ==
    /\ runs[r].pc = "running"
    /\ runs[r].childAlive /\ runs[r].booted
    /\ ~SpawnTimerDue(runs[r])
    /\ Behaviour(runs[r].code) \in {"value", "throws"}
    /\ RunStep(r, Closed(runs[r], 0,
                         IF Behaviour(runs[r].code) = "value"
                         THEN [success |-> TRUE, error |-> <<>>]
                         ELSE [success |-> FALSE, error |-> ThrownMessage]))

\* the timeout of the vm expires: runInContext throws, the wrapper prints a failure
\* report and the child exits with 0
VmTimeoutFires(r) ==
    /\ runs[r].pc = "running"
    /\ VmTimerDue(runs[r])
    /\ RunStep(r, [Closed(runs[r], 0, [success |-> FALSE, error |-> VmTimeoutMessage])
                     EXCEPT !.timer = "vm"])

\* the timeout of spawn expires: the child is killed and closes with no exit code
SpawnTimeoutFires(r) ==
    /\ runs[r].pc = "running"
    /\ SpawnTimerDue(runs[r])
    /\ RunStep(r, [Closed(runs[r], ExitCodeNull, NoReport) EXCEPT !.killed = TRUE, !.timer = "spawn"])

\* a tick of the clock, when no timer is due
Ticked(run) ==
    IF run.childAlive
    THEN [run EXCEPT !.elapsed = @ + 1, !.vmElapsed = IF run.booted THEN @ + 1 ELSE @]
    ELSE run
Tick ==
    /\ \E r \in RunIds : runs[r].childAlive
    /\ \A r \in RunIds : ~SpawnTimerDue(runs[r]) /\ ~VmTimerDue(runs[r])
    /\ runs' = [r \in RunIds |-> Ticked(runs[r])]
    /\ UNCHANGED <<serverVars, probe, logVars>>

\* the finally block of executeInIsolation: fs.unlink(scriptPath), then
\* fs.rm(tempDir); when unlink throws, the rest is skipped and a warning is logged.
\* Then executeCode returns its SandboxResult.
CleanedUp(run) ==
    IF run.scriptExists
    THEN [run EXCEPT !.scriptExists = FALSE, !.dirExists = FALSE]
    ELSE run
Cleanup(r) ==
    /\ runs[r].pc = "cleanup"
    /\ RunStep(r, [CleanedUp(runs[r]) EXCEPT !.pc = "returned", !.success = ~runs[r].failed])

InitSandbox ==
    /\ Start({EnvUnset}, {"production"}, {KeyBytes})
    /\ AuxIdle

NextSandbox ==
    \/ \E r \in RunIds, code \in SandboxCodes, timeout \in SandboxTimeouts : RunStart(r, code, timeout)
    \/ \E r \in RunIds, ok \in BOOLEAN : MkdirDone(r, ok)
    \/ \E r \in RunIds, ok \in BOOLEAN, created \in BOOLEAN : WriteFileDone(r, ok, created)
    \/ \E r \in RunIds, ok \in BOOLEAN : Spawn(r, ok)
    \/ \E r \in RunIds : ChildBoots(r)
    \/ \E r \in RunIds : ChildFinishes(r)
    \/ \E r \in RunIds : VmTimeoutFires(r)
    \/ \E r \in RunIds : SpawnTimeoutFires(r)
    \/ Tick
    \/ \E r \in RunIds : Cleanup(r)

SpecSandbox == InitSandbox /\ [][NextSandbox]_vars

\* the event loop, the timers and the file system keep going
SpecSandboxLive == SpecSandbox /\ WF_vars(NextSandbox)

----------------------------------------------------------------------------
(* Concurrent calls of SecurityLogger.logSecurityEvent, step by step: a call *)
(* gives up the thread at each await, so the calls in flight interleave at   *)
(* the awaits of ensureLogDirectory and of fs.appendFile.  The content of a  *)
(* file is a sequence of symbols: the JSON text of a record is its opening   *)
(* and its closing half, and the line feed is a symbol of its own.           *)

NoRecord == [f \in EntryFields |-> Plain(NoEntry[f])]
JsonStringify(record) == << [sym |-> "{", of |-> record], [sym |-> "}", of |-> record] >>
LineFeed == [sym |-> "\n", of |-> NoRecord]

\* the iv drawn for each sensitive field of the entry of call w
LogIvs(w) == [f \in sensitiveFields |-> <<w, f>>]
\* logLine = JSON.stringify(encryptedEntry) + '\n'
LogLine(entry, key, ivs) == JsonStringify(encryptLogEntry(entry, key, ivs)) \o <<LineFeed>>

\* A faulty write of the log line, against which the property of the day-files
\* is validated: the record and the line feed are appended by two calls.
appendFileCallsSplit(logLine) == << SubSeq(logLine, 1, Len(logLine) - 1), <<LineFeed>> >>

\* await fs.appendFile(logFile, logLine, 'utf8'): the data handed to the file
\* system, one element for each call of fs.appendFile
appendFileCalls(logLine) == << logLine >>

\* the entries handed to logSecurityEvent
LogAllowed == [blocked |-> FALSE, success |-> TRUE, riskLevel |-> "low"]
LogBlocked == [blocked |-> TRUE, success |-> FALSE, riskLevel |-> "critical"]
LogEntries(w, timestamp) ==
    { AuditEntry(w, timestamp, <<"1","+","1">>, LogAllowed, <<>>, 0, NoMeta),
      AuditEntry(w, timestamp, CmdFetch, LogBlocked, <<"b","l","o","c","k","e","d">>, 0, NoMeta) }

LogStep(w, event) ==
    /\ logEvents' = [logEvents EXCEPT ![w] = event]
    /\ UNCHANGED <<env, securityLevel, lastIndex, sandboxCache, encryptionKey, requests,
                   auditLog, logged, calls, prev, last, probe, runs, now, keyStore>>

\* logSecurityEvent(entry) up to its first await: ensureLogDirectory() is started
LogSecurityEvent(w, entry) ==
    /\ logEvents[w].pc = "idle"
    /\ LogStep(w, [logEvents[w] EXCEPT !.pc = "mkdir", !.entry = entry])
    /\ UNCHANGED <<dayFiles, oplog>>

\* ensureLogDirectory() settles (a failed fs.mkdir is logged and swallowed); the
\* call takes the date, the path and the line and starts fs.appendFile
Prepared(event, w, ok, date, key) ==
    [event EXCEPT !.pc = "append", !.mkdirOk = ok, !.date = date,
                  !.logFile = getLogFilePath(date),
                  !.logLine = LogLine(event.entry, key, LogIvs(w)),
                  !.pending = appendFileCalls(LogLine(event.entry, key, LogIvs(w)))]
EnsureLogDirectoryDone(w, ok) ==
    /\ logEvents[w].pc = "mkdir"
    /\ LogStep(w, Prepared(logEvents[w], w, ok, now, encryptionKey))
    /\ oplog' = IF ok THEN oplog
                ELSE Append(oplog, [level |-> "error", msg |-> "Failed to create log directory",
                                    sessionId |-> logEvents[w].entry.sessionId])
    /\ UNCHANGED dayFiles

\* one call of fs.appendFile is served: its data goes to the end of the file in
\* one piece, or the call fails and the file stays as it is; after the last one
\* the event is reported on the console
Served(event) ==
    [event EXCEPT !.pending = Tail(event.pending), !.appends = event.appends + 1,
                  !.pc = IF Len(event.pending) = 1 THEN "done" ELSE "append",
                  !.settled = IF Len(event.pending) = 1 THEN "resolved" ELSE "pending"]

\* A faulty catch clause, against which the property of the caller is validated:
\* it reports the failure and throws it again.
FailedRethrows(event) ==
    [event EXCEPT !.pending = <<>>, !.appends = event.appends + 1, !.failed = TRUE, !.pc = "done",
                  !.settled = "rejected"]

\* catch (error): the failure is reported and the promise of the call resolves
Failed(event) ==
    [event EXCEPT !.pending = <<>>, !.appends = event.appends + 1, !.failed = TRUE, !.pc = "done",
                  !.settled = "resolved"]
AppendFileDone(w, ok) ==
    /\ logEvents[w].pc = "append"
    /\ (~logEvents[w].mkdirOk) => ~ok
    /\ LogStep(w, IF ok THEN Served(logEvents[w]) ELSE Failed(logEvents[w]))
    /\ dayFiles' = IF ok
                   THEN [dayFiles EXCEPT ![logEvents[w].logFile] = @ \o Head(logEvents[w].pending)]
                   ELSE dayFiles
    /\ oplog' = IF ~ok
                THEN Append(oplog, [level |-> "error", msg |-> "Failed to write security log",
                                    sessionId |-> logEvents[w].entry.sessionId])
                ELSE IF Len(logEvents[w].pending) = 1
                THEN Append(oplog, [level |-> getLogLevel(logEvents[w].entry.riskLevel),
                                    msg |-> "Security Event",
                                    sessionId |-> logEvents[w].entry.sessionId])
                ELSE oplog

\* time passes
ClockTick ==
    /\ now < MaxTicks
    /\ now' = now + 1
    /\ UNCHANGED <<serverVars, probe, runs, dayFiles, logEvents, keyStore>>

InitLogger ==
    /\ Start({EnvUnset}, {"production"}, {KeyBytes})
    /\ AuxIdle

NextLogger ==
    \/ \E w \in LogEventIds : \E entry \in LogEntries(w, now) : LogSecurityEvent(w, entry)
    \/ \E w \in LogEventIds, ok \in BOOLEAN : EnsureLogDirectoryDone(w, ok)
    \/ \E w \in LogEventIds, ok \in BOOLEAN : AppendFileDone(w, ok)
    \/ ClockTick

SpecLogger == InitLogger /\ [][NextLogger]_vars

----------------------------------------------------------------------------
(* The key file (SecurityLogger.getOrCreateEncryptionKey), step by step.   *)
(* The constructor is synchronous, but each of its calls into the file       *)
(* system leaves the disk in a state that other processes see, and the key   *)
(* file outlives the process: a later process start finds what was left.     *)

\* 0o600, the mode given to chmodSync
OwnerReadWrite == Mode({"r", "w"}, {}, {})
\* 0o666, the mode writeFileSync asks for when it creates a file
DefaultFileMode == Mode({"r", "w"}, {"r", "w"}, {"r", "w"})
\* the mode a created file gets under the umask of the process
Masked(mode, umask) ==
    Mode(mode.owner \ umask.owner, mode.group \ umask.group, mode.other \ umask.other)
\* the umasks of the model: 0o022 and 0o077
Umasks == { Mode({}, {"w"}, {"w"}), Mode({}, Access, Access) }
MaxStarts == 3

KeyStep(store) ==
    /\ keyStore' = store
    /\ UNCHANGED <<env, securityLevel, lastIndex, sandboxCache, encryptionKey, requests,
                   auditLog, logged, calls, prev, last, probe, runs, now, dayFiles, logEvents>>

SaveFailed(console) ==
    Append(console, [level |-> "warn", msg |-> "Failed to save encryption key", sessionId |-> 0])

\* a process starts and its SecurityLogger is constructed
ProcessStart(umask) ==
    /\ keyStore.pc = "ready"
    /\ keyStore.starts < MaxStarts
    /\ KeyStep([keyStore EXCEPT !.pc = "read", !.starts = @ + 1, !.umask = umask, !.fresh = FALSE])
    /\ UNCHANGED oplog

\* readFileSync(keyPath): the content of the file is the key; when the read
\* throws, a new key of 32 random bytes is made
ReadFileSync(ok) ==
    /\ keyStore.pc = "read"
    /\ ok => keyStore.file.exists
    /\ KeyStep(IF ok
               THEN [keyStore EXCEPT !.pc = "ready", !.key = [bytes |-> keyStore.file.bytes]]
               ELSE [keyStore EXCEPT !.pc = "mkdir", !.key = [bytes |-> KeyBytes], !.fresh = TRUE])
    /\ UNCHANGED oplog

\* mkdirSync(this.logDir, { recursive: true })
MkdirSync(ok) ==
    /\ keyStore.pc = "mkdir"
    /\ KeyStep([keyStore EXCEPT !.pc = IF ok THEN "write" ELSE "ready"])
    /\ oplog' = IF ok THEN oplog ELSE SaveFailed(oplog)

\* writeFileSync(keyPath, key): an existing file keeps its mode, a new one gets
\* the default mode under the umask; a write that throws has stored `stored`
\* of the bytes of the key
KeyFileWritten(file, umask, stored) ==
    [exists |-> TRUE,
     mode |-> IF file.exists THEN file.mode ELSE Masked(DefaultFileMode, umask),
     bytes |-> stored]
WriteFileSync(ok, opened, stored) ==
    /\ keyStore.pc = "write"
    /\ ok => (opened /\ stored = KeyBytes)
    /\ KeyStep([keyStore EXCEPT
                   !.pc = IF ok THEN "chmod" ELSE "ready",
                   !.file = IF opened THEN KeyFileWritten(keyStore.file, keyStore.umask, stored) ELSE @])
    /\ oplog' = IF ok THEN oplog ELSE SaveFailed(oplog)

\* chmodSync(keyPath, 0o600)
ChmodSync(ok) ==
    /\ keyStore.pc = "chmod"
    /\ KeyStep([keyStore EXCEPT !.pc = "ready",
                                !.file.mode = IF ok THEN OwnerReadWrite ELSE @])
    /\ oplog' = IF ok THEN oplog ELSE SaveFailed(oplog)

InitKeyFile ==
    /\ Start({EnvUnset}, {"production"}, {KeyBytes})
    /\ AuxIdle

NextKeyFile ==
    \/ \E umask \in Umasks : ProcessStart(umask)
    \/ \E ok \in BOOLEAN : ReadFileSync(ok)
    \/ \E ok \in BOOLEAN : MkdirSync(ok)
    \/ \E ok, opened \in BOOLEAN, stored \in {0, KeyBytes \div 2, KeyBytes} :
           WriteFileSync(ok, opened, stored)
    \/ \E ok \in BOOLEAN : ChmodSync(ok)

SpecKeyFile == InitKeyFile /\ [][NextKeyFile]_vars

----------------------------------------------------------------------------
(* Properties of the tool-call pipeline (specification Spec).              *)

\* the lines of the security log that belong to request rid
LinesOf(rid) == {i \in DOMAIN auditLog : auditLog[i].sessionId = Plain(rid)}
\* the entries executeSecurely passed to logSecurityEvent for request rid
LoggedFor(rid) == {i \in DOMAIN logged : logged[i].entry.sessionId = rid}
\* the operational log reports that the entry of request rid could not be written
WriteFailureReported(rid) ==
    \E i \in DOMAIN oplog : /\ oplog[i].msg = "Failed to write security log"
                            /\ oplog[i].sessionId = rid

\* C1: a request whose classification is invalid or critical gets a Blocked
\* result (blocked = true), and neither the sandbox nor the external operation is
\* invoked for it at any point of its handling.
C1_InvalidOrCriticalIsBlocked ==
    \A rid \in Requests :
        (/\ requests[rid].secured
         /\ (~requests[rid].verdict.isValid \/ requests[rid].verdict.riskLevel = "critical"))
        => /\ requests[rid].result.blocked
           /\ ~requests[rid].sandboxInvoked
           /\ ~requests[rid].externalInvoked

\* a critical command went through the whole handler and was answered with an error
C1_Witness ==
    \E rid \in Requests :
        /\ requests[rid].secured
        /\ requests[rid].verdict.riskLevel = "critical"
        /\ requests[rid].pc = "done"
        /\ requests[rid].response = "error"

\* C2: for every tool, the external operation of a request is invoked only after
\* executeSecurely returned an Allowed result (blocked = false, success = true)
\* for that request.
C2_ExternalOnlyAfterAllowed ==
    \A rid \in Requests :
        requests[rid].externalInvoked
        => /\ requests[rid].secured
           /\ requests[rid].returned
           /\ ~requests[rid].result.blocked
           /\ requests[rid].result.success

\* C5 as stated: every request whose executeSecurely call returned has exactly
\* one line in the security log.
C5_ExactlyOneLine ==
    \A rid \in Requests :
        requests[rid].returned => Cardinality(LinesOf(rid)) = 1

\* C5, amended: every request whose executeSecurely call returned was passed to
\* logSecurityEvent exactly once and has at most one line in the security log; it
\* has none only when the write failed, and then the operational log reports the
\* failure.  A request that has not returned has no line.
C5_OneEntryUnlessWriteFails ==
    \A rid \in Requests :
        /\ requests[rid].returned
           => /\ Cardinality(LoggedFor(rid)) = 1
              /\ Cardinality(LinesOf(rid)) <= 1
              /\ (LinesOf(rid) = {} => WriteFailureReported(rid))
        /\ ~requests[rid].returned
           => /\ LoggedFor(rid) = {}
              /\ LinesOf(rid) = {}

\* the executeSecurely call of a request returned and its write to the log failed
C5_Witness ==
    \E rid \in Requests :
        /\ requests[rid].returned
        /\ LinesOf(rid) = {}
        /\ WriteFailureReported(rid)

\* C6: the line appended for an entry holds no non-empty command, error, sourceIP
\* or userAgent in plain form (it holds their cipher text or digest), and holds
\* every other field of the entry unchanged.
C6_SensitiveFieldsNotPlain ==
    \A i \in DOMAIN logged :
        logged[i].line # 0
        => \A f \in EntryFields :
              IF f \in {"command", "error", "sourceIP", "userAgent"} /\ logged[i].entry[f] # <<>>
              THEN /\ auditLog[logged[i].line][f].form \in {"aes-256-cbc", "sha256"}
                   /\ auditLog[logged[i].line][f].text = logged[i].entry[f]
              ELSE auditLog[logged[i].line][f] = Plain(logged[i].entry[f])

\* a line was appended for an entry with a command, an error, a source address
\* and a user agent
C6_Witness ==
    \E i \in DOMAIN logged :
        /\ logged[i].line # 0
        /\ \A f \in {"command", "error", "sourceIP", "userAgent"} : logged[i].entry[f] # <<>>

\* C7: a request whose sandbox trial failed never reaches the external operation,
\* its result is blocked or not a success, and the entry logged for it records a
\* failure.
C7_SandboxFailureNotForwarded ==
    \A rid \in Requests :
        requests[rid].sandboxFailed
        => /\ ~requests[rid].externalInvoked
           /\ (requests[rid].result.blocked \/ ~requests[rid].result.success)
           /\ \A i \in LoggedFor(rid) : ~logged[i].entry.success

\* a sandbox trial failed, executeSecurely returned a result that is not blocked,
\* and the handler answered with an error
C7_Witness ==
    \E rid \in Requests :
        /\ requests[rid].sandboxFailed
        /\ ~requests[rid].result.blocked
        /\ requests[rid].pc = "done"
        /\ requests[rid].response = "error"

----------------------------------------------------------------------------
(* Properties of the classifier and of the orchestrator's accessors        *)
(* (specification SpecClassifier).                                         *)

\* the text validateCommand classifies: the code of an evaluation request, the
\* command string otherwise
ClassifiedText(input) == IF EvalMode(input) THEN StringOf(input.args) ELSE input.command
ContainsDangerousKeyword(text) ==
    \E k \in DOMAIN DANGEROUS_KEYWORDS : Test(KeywordRegExp(DANGEROUS_KEYWORDS[k]), text)

\* C3: in both modes, a classified text that contains a dangerous keyword as a
\* whole word gets riskLevel critical and isValid false.
C3_DangerousKeywordIsCritical ==
    (/\ last.op = "validateCommand"
     /\ SecureCommandSchemaAccepts(last.input)
     /\ ContainsDangerousKeyword(ClassifiedText(last.input)))
    => /\ last.verdict.riskLevel = "critical"
       /\ ~last.verdict.isValid

\* C4: two consecutive classifications of the same input at the same level give
\* the same isValid, errors, riskLevel and sanitized command.
C4_SameInputSameVerdict ==
    (/\ prev.op = "validateCommand"
     /\ last.op = "validateCommand"
     /\ prev.input = last.input
     /\ prev.level = last.level)
    => prev.verdict = last.verdict

\* C8: a shouldSandbox call that hits the cache returns what a fresh decision for
\* the command would return at that moment, and two consecutive calls for the
\* same command return the same boolean.
C8_CacheHitEqualsFreshDecision ==
    /\ (last.op = "shouldSandboxCommand" /\ last.hit)
       => last.result = FreshSandboxDecision(last.input.command, last.level, last.li).decision
    /\ (/\ prev.op = "shouldSandboxCommand"
        /\ last.op = "shouldSandboxCommand"
        /\ prev.input = last.input)
       => prev.result = last.result

\* the classification of a command string on its own
ClassificationOf(command, level) ==
    validateCommand([command |-> command, args |-> NoArgs], level, InitialLastIndex)

\* C9: shouldSandbox(command) is true exactly when the command is classified High
\* or above or is evaluation-type; it is false for the simple command names and
\* true for the risky 'eval:...' commands.
C9_SandboxIffHighOrEval ==
    last.op = "shouldSandboxCommand"
    => /\ last.result <=>
            \/ RiskRank(ClassificationOf(last.input.command, last.level).riskLevel) >= RiskRank("high")
            \/ IsEvalType(last.input.command)
       /\ last.input.command \in SimpleCommands => ~last.result
       /\ last.input.command \in RiskyCommands => last.result

\* C10: in a deployment that is not a development one, the active level is never
\* Development, whether it was selected at startup or through setSecurityLevel.
C10_NoDevelopmentLevelInProduction ==
    env.NODE_ENV # "development" => securityLevel # DEVELOPMENT

\* C11: once initialised at process start, the active security level never
\* changes: no step of the server alters the value getSecurityLevel returns.
C11_SecurityLevelNeverChanges == [][securityLevel' = securityLevel]_vars

\* C12: getSecurityLevel returns BALANCED as long as setSecurityLevel has not been
\* called, whatever the environment holds, and otherwise the level passed to the
\* most recent setSecurityLevel call: a setSecurityLevel call stores its level and
\* no other call changes the level.
C12_LevelIsLastSetOrBalanced ==
    /\ [](calls = 0 => securityLevel = BALANCED)
    /\ [](last.op = "setSecurityLevel" => securityLevel = last.level)
    /\ [][last'.op # "setSecurityLevel" => securityLevel' = securityLevel]_vars

\* C14: the verdict of the classifier for a well-formed command that it rates
\* High or Medium is valid.
C14_HighAndMediumAreValid ==
    (/\ last.op = "validateCommand"
     /\ SecureCommandSchemaAccepts(last.input)
     /\ last.verdict.riskLevel \in {"high", "medium"})
    => last.verdict.isValid

----------------------------------------------------------------------------
(* Properties of the functions on their own (specification SpecFunctions). *)

\* the level the aggregation rule gives to a collection of factors
AggregatedRisk(factors, count) ==
    IF factors \cap (KeywordFactors \cup InjectionFactors) # {} THEN "critical"
    ELSE IF factors \cap (XssFactors \cup ObfuscationFactors) # {} \/ count > 3 THEN "high"
    ELSE IF count > 1 THEN "medium"
    ELSE "low"
Range(s) == { s[i] : i \in DOMAIN s }
Reordered(s, p) == [i \in DOMAIN s |-> s[p[i]]]

\* C13: the risk level of a list of risk factors is Critical if any factor is a
\* dangerous-keyword or injection-pattern hit, otherwise High if any factor is an
\* XSS or obfuscation flag or there are more than three factors, otherwise Medium
\* if there is more than one factor, otherwise Low; and it is the same for every
\* reordering of the list.
C13_RiskLevelByFactorsAnyOrder ==
    (probe.fn = "calculateRiskLevel" /\ probe.applied)
    => /\ probe.output = AggregatedRisk(Range(probe.input), Len(probe.input))
       /\ \A p \in Permutations(DOMAIN probe.input) :
              calculateRiskLevel(Reordered(probe.input, p)) = probe.output

\* a list whose critical factor comes last was rated, and one of more than three
\* factors none of which is critical, XSS or obfuscation
C13_Witness ==
    /\ probe.fn = "calculateRiskLevel"
    /\ probe.applied
    /\ \/ /\ Len(probe.input) = 3
          /\ probe.input[1] \in OtherFactors
          /\ probe.input[3] \in InjectionFactors
          /\ probe.output = "critical"
       \/ /\ Len(probe.input) = 4
          /\ Range(probe.input) \subseteq OtherFactors
          /\ probe.output = "high"

ScriptElement == XSS_PATTERNS[1]
JavascriptScheme == XSS_PATTERNS[2]
\* the characters of a command outside its script elements and its schemes
OutsideScriptAndScheme(command) ==
    RemoveAll(JavascriptScheme, RemoveAll(ScriptElement, command, 0), 0)
\* a is b with some characters left out
RECURSIVE IsSubsequence(_, _, _, _)
IsSubsequence(a, b, i, j) ==
    IF i > Len(a) THEN TRUE
    ELSE IF j > Len(b) THEN FALSE
    ELSE IF a[i] = b[j] THEN IsSubsequence(a, b, i + 1, j + 1)
    ELSE IsSubsequence(a, b, i, j + 1)

\* C15: the sanitized command contains no script element and no 'javascript:'
\* scheme, and the characters of the command outside its script elements and its
\* 'javascript:' schemes are all in it, unchanged and in their order.
C15_SanitizeRemovesOnlyScriptAndScheme ==
    (probe.fn = "sanitizeCommand" /\ probe.applied)
    => /\ ~Test(ScriptElement, probe.output)
       /\ ~Test(JavascriptScheme, probe.output)
       /\ IsSubsequence(OutsideScriptAndScheme(probe.input), probe.output, 1, 1)

\* C16: an evaluation command whose code is a DOM-query call gets an invalid
\* verdict when the active level is Strict and a valid one when it is Balanced.
C16_DomQueryStrictBlockedBalancedAllowed ==
    (/\ last.op = "validateCommand"
     /\ EvalMode(last.input)
     /\ last.input.args.kind = "string"
     /\ last.input.args.text \in DomQueryCodes)
    => /\ last.level = STRICT => ~last.verdict.isValid
       /\ last.level = BALANCED => last.verdict.isValid

----------------------------------------------------------------------------
(* Properties of the sandbox runs (specifications SpecSandbox and          *)
(* SpecSandboxLive).                                                       *)

LoopingRunStarted(r) == runs[r].code = CodeLoops /\ runs[r].pc # "idle"
ReturnedFailure(r) == runs[r].pc = "returned" /\ ~runs[r].success /\ ~runs[r].childAlive

\* C17 as stated: a run of a payload that passes the pre-check and never
\* terminates eventually returns success = false, and when it does so after its
\* child was started, the child was killed at the configured timeout.
C17_LoopReturnsFailureKilled ==
    \A r \in RunIds :
        LoopingRunStarted(r)
        ~> (ReturnedFailure(r) /\ (runs[r].booted => runs[r].killed))

\* C17, amended: a run of a payload that passes the pre-check and never terminates
\* eventually returns success = false with its child process gone: the child was
\* killed at the configured timeout, or the timeout of the vm stopped the payload
\* and the child reported the failure and exited.
C17_LoopReturnsFailure ==
    \A r \in RunIds : LoopingRunStarted(r) ~> ReturnedFailure(r)

\* a never-terminating payload ran in a child that was killed at the timeout, and
\* the run returned a failure
C17_Witness ==
    \E r \in RunIds :
        /\ runs[r].code = CodeLoops
        /\ runs[r].booted
        /\ runs[r].killed
        /\ ReturnedFailure(r)

\* C18: once executeCode has returned, neither the wrapper script nor the
\* temporary directory of the run exists, whichever way the run ended.
C18_NoTemporaryFilesAfterReturn ==
    \A r \in RunIds :
        runs[r].pc = "returned" => ~runs[r].scriptExists /\ ~runs[r].dirExists

----------------------------------------------------------------------------
(* Property of the stored fields (specification SpecFunctions).            *)

\* C19: under a key of 32 bytes, decrypting the stored string of a field with
\* the key it was encrypted with gives the field back, and decrypting a stored
\* string that was damaged gives the placeholder '[ENCRYPTED]'.
C19_DecryptRoundTripOrPlaceholder ==
    (probe.fn = "decryptString" /\ probe.applied /\ probe.input.key.bytes = KeyBytes)
    => IF probe.input.damage = NoDamage
       THEN probe.output = Decrypted(probe.input.text)
       ELSE probe.output = Placeholder

----------------------------------------------------------------------------
(* Property of the day-files (specification SpecLogger).                   *)

\* the file is a sequence of whole lines: a record's two halves and a line feed
RECURSIVE WholeLines(_, _)
WholeLines(file, i) ==
    IF i > Len(file) THEN TRUE
    ELSE /\ i + 2 <= Len(file)
         /\ file[i].sym = "{" /\ file[i + 1].sym = "}" /\ file[i + 2].sym = "\n"
         /\ file[i + 1].of = file[i].of
         /\ WholeLines(file, i + 3)
\* the positions at which the file holds the line
Occurrences(file, line) ==
    { i \in 1..Len(file) : i + Len(line) - 1 <= Len(file)
                           /\ SubSeq(file, i, i + Len(line) - 1) = line }
IsPrefix(a, b) == Len(a) <= Len(b) /\ SubSeq(b, 1, Len(a)) = a
\* the number of symbols of a line
LineLength == Len(JsonStringify(NoRecord)) + 1
Written(w) == logEvents[w].pc = "done" /\ ~logEvents[w].failed

\* C20: however the calls of logSecurityEvent interleave, a call makes one append,
\* which puts its whole line once at the end of the file of the UTC day the call
\* took its date on; every day-file is a sequence of whole lines, one for each
\* call that has written to it; and a step never changes or removes what a
\* day-file already holds.
C20_ConcurrentAppendsKeepWholeLines ==
    /\ [](\A w \in LogEventIds :
            /\ logEvents[w].appends <= 1
            /\ logEvents[w].pc = "done" => logEvents[w].appends = 1
            /\ Written(w) =>
                 /\ Cardinality(Occurrences(dayFiles[UtcDay(logEvents[w].date)],
                                            logEvents[w].logLine)) = 1
                 /\ \A d \in Days \ {UtcDay(logEvents[w].date)} :
                        Occurrences(dayFiles[d], logEvents[w].logLine) = {})
    /\ [](\A d \in Days :
            /\ WholeLines(dayFiles[d], 1)
            /\ Len(dayFiles[d]) =
                 LineLength * Cardinality({ w \in LogEventIds : Written(w) /\ logEvents[w].logFile = d }))
    /\ [][\A d \in Days : IsPrefix(dayFiles[d], dayFiles'[d])]_vars

\* two calls were in flight together, took their dates on different days, and
\* both have written
C20_Witness ==
    \E v, w \in LogEventIds :
        /\ v # w
        /\ Written(v) /\ Written(w)
        /\ logEvents[v].entry.timestamp < logEvents[w].entry.timestamp
        /\ logEvents[w].date < logEvents[v].date
        /\ UtcDay(logEvents[w].date) # UtcDay(logEvents[v].date)

----------------------------------------------------------------------------
(* Properties of the logger towards its caller (specification SpecLogger).  *)

Reported(w, msg) ==
    \E i \in DOMAIN oplog : oplog[i].msg = msg /\ oplog[i].sessionId = logEvents[w].entry.sessionId

\* C21: a call of logSecurityEvent that has ended has resolved, never rejected;
\* when creating the directory failed or the append failed, the operational log
\* holds the report of that failure; and no step of the logger changes the entry
\* (with the verdict it carries) that the caller handed over.
C21_LoggerNeverPropagatesFailure ==
    /\ [](\A w \in LogEventIds :
            /\ logEvents[w].settled # "rejected"
            /\ logEvents[w].pc = "done" => logEvents[w].settled = "resolved"
            /\ (logEvents[w].pc \in {"append", "done"} /\ ~logEvents[w].mkdirOk)
                 => Reported(w, "Failed to create log directory")
            /\ logEvents[w].failed => Reported(w, "Failed to write security log"))
    /\ [][\A w \in LogEventIds :
             logEvents[w].pc # "idle" => logEvents'[w].entry = logEvents[w].entry]_vars

\* one call has ended after a failed append into an existing directory, another
\* after a failed creation of the directory
C21_Witness ==
    \E v, w \in LogEventIds :
        /\ logEvents[v].pc = "done" /\ logEvents[v].failed /\ logEvents[v].mkdirOk
        /\ logEvents[w].pc = "done" /\ logEvents[w].failed /\ ~logEvents[w].mkdirOk

----------------------------------------------------------------------------
(* Property of the key file (specification SpecKeyFile).                   *)

\* C22: whenever a constructed logger has a key file on disk, the mode of the
\* file gives nothing to the group and to the others; and a logger that made a
\* new key holds 32 bytes of it, with a warning on the operational log when the
\* file could not be written or restricted.
C22_KeyFileOwnerOnly ==
    keyStore.pc = "ready"
    => /\ keyStore.file.exists
          => (keyStore.file.mode.group = {} /\ keyStore.file.mode.other = {})
       /\ keyStore.fresh => keyStore.key.bytes = KeyBytes
       /\ (keyStore.fresh /\ keyStore.file.mode # OwnerReadWrite)
          => \E i \in DOMAIN oplog : oplog[i].msg = "Failed to save encryption key"

----------------------------------------------------------------------------
(* Property of the metrics (specification SpecFunctions).                  *)

\* the number of entries with a non-empty command whose first TruncateLength
\* characters are `command`
Frequency(entries, command) ==
    Cardinality({ i \in DOMAIN entries :
                    /\ entries[i].command # <<>>
                    /\ SubSeq(entries[i].command, 1,
                              IF Len(entries[i].command) < TruncateLength
                              THEN Len(entries[i].command) ELSE TruncateLength) = command })

\* C23: the metrics list at most TopLimit commands, each at most TruncateLength
\* characters long and listed once, in the order of non-increasing count, each
\* with the number of entries whose truncated command it is, and no command left
\* out is more frequent than a listed one; totalRequests is the number of
\* entries, blockedRequests the number of entries with success = false, and
\* errorRate their quotient, or zero when there is no entry.
C23_MetricsBoundedAndCounted ==
    (probe.fn = "getSecurityMetrics" /\ probe.applied)
    => /\ Len(probe.output.topCommands) <= TopLimit
       /\ \A i \in DOMAIN probe.output.topCommands :
              /\ Len(probe.output.topCommands[i].command) <= TruncateLength
              /\ probe.output.topCommands[i].count
                    = Frequency(probe.input, probe.output.topCommands[i].command)
              /\ \A j \in DOMAIN probe.output.topCommands :
                     /\ i < j => probe.output.topCommands[i].count >= probe.output.topCommands[j].count
                     /\ i # j => probe.output.topCommands[i].command # probe.output.topCommands[j].command
              /\ \A k \in DOMAIN probe.input :
                     \/ probe.input[k].command = <<>>
                     \/ \E j \in DOMAIN probe.output.topCommands :
                            probe.output.topCommands[j].command
                              = SubSeq(probe.input[k].command, 1,
                                       IF Len(probe.input[k].command) < TruncateLength
                                       THEN Len(probe.input[k].command) ELSE TruncateLength)
                     \/ Frequency(probe.input,
                                  SubSeq(probe.input[k].command, 1,
                                         IF Len(probe.input[k].command) < TruncateLength
                                         THEN Len(probe.input[k].command) ELSE TruncateLength))
                          <= probe.output.topCommands[i].count
       /\ probe.output.totalRequests = Len(probe.input)
       /\ probe.output.blockedRequests
             = Cardinality({ i \in DOMAIN probe.input : ~probe.input[i].success })
       /\ probe.output.errorRate
             = IF Len(probe.input) = 0 THEN [num |-> 0, den |-> 1]
               ELSE [num |-> probe.output.blockedRequests, den |-> Len(probe.input)]

\* metrics over entries with more than TopLimit different truncated commands, two
\* long commands that share their truncation, and a blocked entry
C23_Witness ==
    /\ probe.fn = "getSecurityMetrics" /\ probe.applied
    /\ Len(probe.output.topCommands) = TopLimit
    /\ Cardinality({ probe.input[i].command : i \in DOMAIN probe.input }) > TopLimit + 1
    /\ \E i, j \in DOMAIN probe.input :
           /\ probe.input[i].command # probe.input[j].command
           /\ Len(probe.input[i].command) > TruncateLength
           /\ Len(probe.input[j].command) > TruncateLength
    /\ probe.output.topCommands[1].count = 2
    /\ probe.output.blockedRequests = 1

----------------------------------------------------------------------------
(* Properties of the evaluation-content mode (specification SpecFunctions). *)

\* the code matches one of the safe expression shapes of the profile
MatchesSafeShape(code, profile) ==
    \/ SomeTest(safePatterns, Trim(code))
    \/ SomeTest(domQueryPatterns(profile), Trim(code))
    \/ SomeTest(uiInteractionPatterns(profile), Trim(code))
\* the word that ends at position j of the code
RECURSIVE WordEndingAt(_, _, _)
WordEndingAt(code, i, j) ==
    IF i >= 1 /\ code[i] \in WordChars THEN WordEndingAt(code, i - 1, j)
    ELSE SubSeq(code, i + 1, j)
\* the names of the functions the code calls: the words followed by '('
CalledNames(code) ==
    { WordEndingAt(code, i - 1, i - 1) :
        i \in { k \in DOMAIN code : k > 1 /\ code[k] = "(" /\ code[k - 1] \in WordChars } }
Listed(list) == { list[i] : i \in DOMAIN list }
HasError(verdict, msg) == \E i \in DOMAIN verdict.errors : verdict.errors[i].msg = msg

\* C24: under a level whose allow-list is not '*', a code that matches no safe
\* shape and calls a function whose name is not in the allow-list gets the error
\* "Function calls in eval are restricted" and an invalid verdict, whatever else
\* it calls.
C24_UnlistedCallIsRestricted ==
    (probe.fn = "validateCommand" /\ probe.applied)
    => \A l \in SecurityLevel :
          (/\ <<"*">> \notin Listed(SECURITY_PROFILES[l].allowFunctionCalls)
           /\ ~MatchesSafeShape(probe.input.text, SECURITY_PROFILES[l])
           /\ CalledNames(probe.input.text) \ Listed(SECURITY_PROFILES[l].allowFunctionCalls) # {})
          => /\ HasError(probe.output[l], "Function calls in eval are restricted")
             /\ ~probe.output[l].isValid

\* the levels in the order of their permissiveness
Permissiveness(l) ==
    CASE l = STRICT -> 1 [] l = BALANCED -> 2 [] l = PERMISSIVE -> 3 [] l = DEVELOPMENT -> 4
ErrorsOf(verdict) == { verdict.errors[i] : i \in DOMAIN verdict.errors }

\* C29: a code that is valid under a level is valid under every more permissive
\* level, and its errors under the more permissive level are among its errors
\* under the stricter one.
C29_PermissivenessIsMonotone ==
    (probe.fn = "validateCommand" /\ probe.applied)
    => \A k, l \in SecurityLevel :
          Permissiveness(k) < Permissiveness(l)
          => /\ probe.output[k].isValid => probe.output[l].isValid
             /\ ErrorsOf(probe.output[l]) \subseteq ErrorsOf(probe.output[k])

\* a code was classified that is invalid under Strict and Balanced and valid
\* under Permissive and Development, and one that loses an error on the way
C29_Witness ==
    /\ probe.fn = "validateCommand" /\ probe.applied
    /\ ~probe.output[STRICT].isValid /\ ~probe.output[BALANCED].isValid
    /\ probe.output[PERMISSIVE].isValid /\ probe.output[DEVELOPMENT].isValid
    /\ ErrorsOf(probe.output[PERMISSIVE]) # ErrorsOf(probe.output[BALANCED])

----------------------------------------------------------------------------
(* Properties of the sandbox runs (specification SpecSandbox).             *)

\* the code holds a blacklisted function call, a blacklisted module or object
\* name as a whole word, or a dangerous pattern
HoldsForbidden(code) ==
    \/ \E f \in DOMAIN DEFAULT_BLACKLISTED_FUNCTIONS :
           Test(Re1(<<Wb>> \o CallOf(DEFAULT_BLACKLISTED_FUNCTIONS[f]), FALSE), code)
    \/ \E o \in DOMAIN DEFAULT_BLACKLISTED_OBJECTS :
           Test(Re1(<<Wb, Lit(DEFAULT_BLACKLISTED_OBJECTS[o]), Wb>>, FALSE), code)
    \/ \E p \in DOMAIN dangerousPatterns : Test(dangerousPatterns[p], code)
ForbiddenCodes == { code \in SandboxCodes : HoldsForbidden(code) }

\* C25: a run of executeCode on a code that holds something forbidden is, from
\* its first step on, returned with success = false and the error "Code
\* validation failed": it never has a temporary directory, a script file or a
\* child process.
C25_RejectedCodeTouchesNothing ==
    \A r \in RunIds :
        (runs[r].pc # "idle" /\ runs[r].code \in ForbiddenCodes)
        => /\ runs[r].pc = "returned"
           /\ ~runs[r].success
           /\ runs[r].error.message = <<"C","o","d","e"," ","v","a","l","i","d","a","t","i","o","n"," ","f","a","i","l","e","d",":"," ">>
           /\ runs[r].error.details # <<>>
           /\ ~runs[r].dirExists /\ ~runs[r].scriptExists
           /\ ~runs[r].childAlive /\ ~runs[r].booted /\ ~runs[r].killed

\* one run was rejected for a module name and another for a dangerous pattern
C25_Witness ==
    \E q, r \in RunIds :
        /\ runs[q].pc = "returned" /\ runs[q].code = CodeModule
        /\ runs[r].pc = "returned" /\ runs[r].code = CodePattern

\* the error says that a time limit expired
SaysTimeout(error) ==
    \/ Includes(error.message, <<"t","i","m","e","d"," ","o","u","t">>)
    \/ Includes(error.message, <<"t","i","m","e","o","u","t">>)
    \/ Includes(error.message, <<"T","i","m","e","o","u","t">>)

\* C26: a run that ended because one of its two timers expired returns an error
\* that says so, and that differs from the error of a payload that threw and from
\* the error of a rejected code.
C26_TimeoutErrorSaysTimeout ==
    \A r \in RunIds :
        (runs[r].pc = "returned" /\ runs[r].timer # "none")
        => /\ SaysTimeout(runs[r].error)
           /\ runs[r].error.message # ThrownMessage
           /\ runs[r].error.message # <<"C","o","d","e"," ","v","a","l","i","d","a","t","i","o","n"," ","f","a","i","l","e","d",":"," ">>

----------------------------------------------------------------------------
(* Properties of the classifier (specification SpecClassifier).            *)

\* C27: for an evaluation request, given its code as a string or in the code
\* field of an object, the classified text is the code, and the verdict is the one
\* the code gets when it is given as a string.
C27_EvalCodeIsClassifiedInBothForms ==
    (/\ last.op = "validateCommand"
     /\ last.input.command = CmdEval
     /\ last.input.args.kind \in {"string", "object"}
     /\ last.input.args.text # <<>>)
    => /\ ClassifiedText(last.input) = last.input.args.text
       /\ last.verdict.isValid
            = validateCommand([command |-> CmdEval, args |-> StringArgs(last.input.args.text)],
                              last.level, last.li).isValid

\* C28: the verdict of a classification that follows one classification of
\* another input is the verdict the same input gets at the same level as the
\* first call of a fresh process.
C28_VerdictIndependentOfHistory ==
    (/\ calls = 2
     /\ prev.op = "validateCommand"
     /\ last.op = "validateCommand"
     /\ prev.input # last.input)
    => /\ last.verdict.isValid = validateCommand(last.input, last.level, InitialLastIndex).isValid
       /\ last.verdict.errors = validateCommand(last.input, last.level, InitialLastIndex).errors
       /\ last.verdict.riskLevel
            = validateCommand(last.input, last.level, InitialLastIndex).riskLevel

\* the stored entries a search is to return: those with a timestamp in the range
\* that match the action and the risk level given
InRange(entry, criteria) ==
    criteria.since <= entry.timestamp /\ entry.timestamp <= criteria.until
MatchesCriteria(entry, criteria) ==
    /\ criteria.action # "" => entry.action = criteria.action
    /\ criteria.riskLevel # "" => entry.riskLevel = criteria.riskLevel
Wanted(stored, criteria) ==
    { stored[i].entry : i \in { j \in DOMAIN stored :
                                  /\ InRange(stored[j].entry, criteria)
                                  /\ MatchesCriteria(stored[j].entry, criteria) } }
NewestOf(found, wanted, limit) ==
    /\ \A i \in DOMAIN found : found[i] \in wanted
    /\ \A i, j \in DOMAIN found : i < j => found[i].timestamp > found[j].timestamp
    /\ Len(found) = IF limit.given THEN Min(limit.n, Cardinality(wanted))
                    ELSE Cardinality(wanted)
    /\ \A e \in wanted :
          (\A i \in DOMAIN found : found[i] # e)
          => \A i \in DOMAIN found : found[i].timestamp > e.timestamp

\* C30: a search with both ends of the range returns exactly the stored entries
\* with a timestamp in the range that match the action and the risk level, the
\* newest first and at most the limit of them; none outside the range, and none
\* of the last day missing.
C30_SearchReturnsExactlyTheRange ==
    (probe.fn = "searchLogs" /\ probe.applied)
    => NewestOf(probe.output, Wanted(probe.input.stored, probe.input.criteria),
                probe.input.criteria.limit)
====
